---- MODULE Spec2Model ----
(***************************************************************************)
(* Model of the minimal perfect hash library rmkrupp/hash (src/src/hash.c, *)
(* src/include/hash.h): the input set, the CHM build loop of hash_create   *)
(* (hash functions with lazily drawn salt, graph arena, acyclicity         *)
(* resolver, growth schedule) and hash_lookup.                             *)
(*                                                                         *)
(* Representation.  A C `char` is an integer in -128..127 and the cast     *)
(* (unsigned char) is modelled by UChar.  A pointer to a vertex is the     *)
(* index of the vertex, the NULL parent is NULL_VERTEX.  A buffer is the   *)
(* sequence of its live elements (salt[0..salt_length), edges[0..n_edges), *)
(* vertex_stack[0..length)), its capacity is kept beside it; elements      *)
(* beyond the live length are never read by the code.  Arrays indexed from *)
(* 0 in C (vertices, values) are functions on 0..n-1; inputs[i] of the C   *)
(* code is inputs[i + 1] of the sequence.                                  *)
(***************************************************************************)
EXTENDS Integers, Sequences, FiniteSets, TLC

(***************************************************************************)
(* Bounds of the model.                                                    *)
(***************************************************************************)

\* most records an input set holds in the model
MaxKeys == 2

\* rand() returns a value in 0..RandMax
RandMax == 1

\* longest query passed to hash_lookup
MaxQueryLen == 3

\* safety cap on the iteration counter of hash_create (never reached when
\* the growth schedule works)
MaxIterations == 400

(***************************************************************************)
(* TUNING VALUES (hash.c:42-95)                                            *)
(***************************************************************************)

\* hash.c:66 sets 650; the model gives up at a lower ceiling so that the
\* ceiling is reached within the model's bounds.  Every statement below is
\* in terms of the name, never of the number.
hash_iterations_max_multiplier == 2

hash_iterations_grow_every_n_trials == 5

hash_iterations_growth_multiplier == 1075

hash_iterations_growth_multiplier_divider == 1024

hash_prealloc_edges == 12

hash_inputs_grow_increment == 1

(***************************************************************************)
(* Values                                                                  *)
(***************************************************************************)

\* the null pointer; a pointer that is not null is a record of another shape
NULL == [null |-> TRUE]

\* the value of a call that has not returned
PENDING == [pending |-> TRUE]

\* the pointer to the struct hash that hash_create returns
HASH == [struct |-> "hash"]

\* the NULL parent pointer of the root's stack frame
NULL_VERTEX == -1

\* (unsigned char)c of a char c
UChar(c) == c % 256

\* a % b of C for signed operands with b > 0 (truncation toward zero)
CRem(a, b) == IF a >= 0 THEN a % b ELSE -((-a) % b)

Max(a, b) == IF a >= b THEN a ELSE b

Min(a, b) == IF a <= b THEN a ELSE b

\* the keys a caller adds in the model: zero bytes alone, leading and
\* trailing; a byte with the high bit set (0xFE is the char -2)
Keys == { <<0>>, <<1>>, <<-2>>, <<1, 0>>, <<0, 1>> }

\* the payload pointer the caller passes with its k-th record: the caller's
\* payloads are pairwise distinct objects
Payload(k) == [payload |-> k]

QueryChars == { 0, 1 }

\* the byte strings looked up in the model: the keys, the keys with a zero
\* byte after them, and every string of QueryChars up to MaxQueryLen
Queries ==
    Keys \cup { key \o << 0 >> : key \in Keys }
         \cup UNION { [1..l -> QueryChars] : l \in 1..MaxQueryLen }

(***************************************************************************)
(* TYPES (hash.c:97-142)                                                   *)
(***************************************************************************)

\* struct hash_function f = {}
hash_function_empty == [salt |-> <<>>, salt_length |-> 0, salt_capacity |-> 0, n |-> 0]

\* *hash_inputs = (struct hash_inputs) { }
hash_inputs_empty == [inputs |-> <<>>, n_inputs |-> 0, capacity |-> 0]

VARIABLES
    hash_inputs,        \* the caller's struct hash_inputs
    hash,               \* the struct hash hash_create returned, or NULL
    pc,                 \* position inside hash_create: "idle" outside of it
    graph,              \* hash_create's graph, NULL outside of hash_create
    f1, f2,             \* hash_create's two hash functions
    iteration,          \* hash_create's iteration counter
    n_vertices,         \* hash_create's graph order
    n_vertices_scaled,  \* hash_create's scaled graph order
    heap,               \* the live allocations of the build machinery
    rand_calls,         \* rand() calls made by the call in progress, or by
                        \* the last call when none is in progress
    ret,                \* the last call that returned, and its value
    key_memory          \* the key buffers given to the library, in the order
                        \* of the add calls: who allocated the buffer, and
                        \* how many times free() was called on it

vars == << hash_inputs, hash, pc, graph, f1, f2, iteration, n_vertices,
           n_vertices_scaled, heap, rand_calls, ret, key_memory >>

(***************************************************************************)
(* GRAPH (hash.c:144-465)                                                  *)
(*                                                                         *)
(* The C code is sequential: a statement works on the value the statement  *)
(* before it left.  Bind(v, F) is that sequencing: v is computed once and  *)
(* F is applied to the value.                                              *)
(***************************************************************************)

Bind(v, F(_)) == CHOOSE r \in { F(x) : x \in {v} } : TRUE

\* graph_create: an empty graph with room for one frame on the vertex stack;
\* ok is the conjunction of the assertions evaluated on the graph so far
graph_create ==
    [vertices |-> [i \in {} |-> 0], n_vertices |-> 0, vertex_stack_capacity |-> 1,
     ok |-> TRUE]

\* hash.c:257-263: the vertex graph_at_least creates in a build where
\* HASH_PREALLOC_EDGES is prealloc: every member not named is zero
vertex_prealloc(prealloc) ==
    [value |-> 0, visited |-> FALSE, edges |-> <<>>, edge_capacity |-> prealloc]

\* variant of vertex_new: the vertex is created as graph_wipe leaves one
vertex_new_wiped ==
    [value |-> -1, visited |-> FALSE, edges |-> <<>>, edge_capacity |-> hash_prealloc_edges]

\* the vertex graph_at_least creates
vertex_new == vertex_prealloc(hash_prealloc_edges)

\* graph_at_least where a new vertex is vertex: grow to n vertices, old
\* vertices kept
graph_at_least_with(g, n, vertex) ==
    [g EXCEPT !.vertices = [i \in 0..(n - 1) |->
                               IF i < g.n_vertices THEN g.vertices[i] ELSE vertex],
              !.n_vertices = n,
              !.ok = g.ok /\ n >= g.n_vertices]

\* graph_at_least
graph_at_least(g, n) == graph_at_least_with(g, n, vertex_new)

\* variant of graph_wipe: the edges of the vertices are left in place
graph_wipe_keeping_edges(g) ==
    [g EXCEPT !.vertices = [i \in 0..(g.n_vertices - 1) |->
                               [value |-> -1, visited |-> FALSE,
                                edges |-> g.vertices[i].edges,
                                edge_capacity |-> g.vertices[i].edge_capacity]]]

\* graph_wipe: value -1, not visited, no edges, the edge buffer kept
graph_wipe(g) ==
    [g EXCEPT !.vertices = [i \in 0..(g.n_vertices - 1) |->
                               [value |-> -1, visited |-> FALSE, edges |-> <<>>,
                                edge_capacity |-> g.vertices[i].edge_capacity]]]

\* variant of graph_connect_prealloc: the buffer of edges is never made
\* larger, and an edge there is no room for is not stored
graph_connect_prealloc_fixed(g, from_index, to_index, edge_value, prealloc) ==
    IF ~(from_index < g.n_vertices /\ to_index < g.n_vertices)
    THEN [g EXCEPT !.ok = FALSE]
    ELSE LET from == g.vertices[from_index]
         IN  IF Len(from.edges) >= from.edge_capacity THEN g
             ELSE [g EXCEPT !.vertices[from_index] =
                       [from EXCEPT !.edges = Append(from.edges,
                                                 [to |-> to_index, value |-> edge_value])]]

\* graph_connect in a build where HASH_PREALLOC_EDGES is prealloc: append
\* the edge (to_index, edge_value) to from_index, the buffer made larger by
\* one entry when it is full
graph_connect_prealloc(g, from_index, to_index, edge_value, prealloc) ==
    IF ~(from_index < g.n_vertices /\ to_index < g.n_vertices)
    THEN [g EXCEPT !.ok = FALSE]
    ELSE LET from == g.vertices[from_index]
             capacity == IF Len(from.edges) = from.edge_capacity
                         THEN from.edge_capacity + 1
                         ELSE from.edge_capacity
         IN  [g EXCEPT !.vertices[from_index] =
                           [from EXCEPT !.edges = Append(from.edges,
                                                     [to |-> to_index, value |-> edge_value]),
                                        !.edge_capacity = capacity],
                       !.ok = g.ok /\ Len(from.edges) <= from.edge_capacity
                                   /\ (prealloc > 0 => capacity >= prealloc)]

\* graph_connect
graph_connect(g, from_index, to_index, edge_value) ==
    graph_connect_prealloc(g, from_index, to_index, edge_value, hash_prealloc_edges)

\* variant of graph_biconnect_prealloc: the edge back is not made
graph_biconnect_prealloc_one_way(g, from_index, to_index, edge_value, prealloc) ==
    graph_connect_prealloc(g, from_index, to_index, edge_value, prealloc)

\* graph_biconnect in a build where HASH_PREALLOC_EDGES is prealloc: one
\* edge each way
graph_biconnect_prealloc(g, from_index, to_index, edge_value, prealloc) ==
    Bind(graph_connect_prealloc(g, from_index, to_index, edge_value, prealloc),
         LAMBDA g1 : graph_connect_prealloc(g1, to_index, from_index, edge_value, prealloc))

\* graph_biconnect
graph_biconnect(g, from_index, to_index, edge_value) ==
    graph_biconnect_prealloc(g, from_index, to_index, edge_value, hash_prealloc_edges)

\* variant of resolve_skip_parent: every edge back to the parent is skipped
resolve_skip_parent_always(skip, to, parent) == to = parent

\* graph_resolve, hash.c:405: the first edge back to the parent is skipped
resolve_skip_parent(skip, to, parent) == skip /\ to = parent

\* variant of resolve_child_value: the remainder as C computes it, not made
\* positive
resolve_child_value_rem(edge_value, vertex_value, n) ==
    CRem(edge_value - vertex_value, n)

\* graph_resolve, hash.c:446-452: the value given to the vertex an edge leads to
resolve_child_value(edge_value, vertex_value, n) ==
    LET v == CRem(edge_value - vertex_value, n)
    IN  IF v < 0 THEN v + n ELSE v

\* graph_resolve, hash.c:415-454: the vertex the edge leads to is pushed with
\* its parent and given its value; st is [vertices, stack, capacity, cyclic, ok]
resolve_push(st, n, vertex, edge) ==
    [st EXCEPT !.ok = st.ok /\ Len(st.stack) <= st.capacity,
               !.capacity = IF Len(st.stack) = st.capacity
                            THEN st.capacity + 1 ELSE st.capacity,
               !.stack = Append(st.stack, [vertex |-> edge.to, parent |-> vertex]),
               !.vertices[edge.to].value =
                   resolve_child_value(edge.value, st.vertices[vertex].value, n)]

\* graph_resolve, hash.c:401-455: the loop over the edges of the popped vertex,
\* from edge j on
RECURSIVE resolve_edges(_, _, _, _, _, _)
resolve_edges(st, n, vertex, parent, j, skip) ==
    IF j >= Len(st.vertices[vertex].edges) THEN st
    ELSE LET edge == st.vertices[vertex].edges[j + 1]
         IN  IF resolve_skip_parent(skip, edge.to, parent)
             THEN resolve_edges(st, n, vertex, parent, j + 1, FALSE)
             ELSE IF st.vertices[edge.to].visited
             THEN [st EXCEPT !.cyclic = TRUE]
             ELSE Bind(resolve_push(st, n, vertex, edge),
                       LAMBDA st1 : resolve_edges(st1, n, vertex, parent, j + 1, skip))

\* graph_resolve, hash.c:387-456: pop and visit until the stack is empty
RECURSIVE resolve_stack(_, _)
resolve_stack(st, n) ==
    IF st.cyclic \/ Len(st.stack) = 0 THEN st
    ELSE LET top == st.stack[Len(st.stack)]
         IN  Bind([st EXCEPT !.stack = SubSeq(st.stack, 1, Len(st.stack) - 1),
                             !.vertices[top.vertex].visited = TRUE],
                  LAMBDA popped :
                      Bind(resolve_edges(popped, n, top.vertex, top.parent, 0, TRUE),
                           LAMBDA st1 : resolve_stack(st1, n)))

\* graph_resolve, hash.c:372-457: the loop over the roots, from vertex i on
RECURSIVE resolve_roots(_, _, _)
resolve_roots(st, n, i) ==
    IF st.cyclic \/ i >= n THEN st
    ELSE IF st.vertices[i].visited THEN resolve_roots(st, n, i + 1)
    ELSE Bind([st EXCEPT !.vertices[i].value = 0,
                         !.stack = << [vertex |-> i, parent |-> NULL_VERTEX] >>],
              LAMBDA rooted :
                  Bind(resolve_stack(rooted, n),
                       LAMBDA st1 : resolve_roots(st1, n, i + 1)))

\* graph_resolve: [acyclic, graph]; the final assertion is part of graph.ok
graph_resolve(g) ==
    Bind(resolve_roots([vertices |-> g.vertices, stack |-> <<>>,
                        capacity |-> g.vertex_stack_capacity,
                        cyclic |-> FALSE, ok |-> g.ok],
                       g.n_vertices, 0),
         LAMBDA st :
             [acyclic |-> ~st.cyclic,
              graph |-> [g EXCEPT !.vertices = st.vertices,
                                  !.vertex_stack_capacity = st.capacity,
                                  !.ok = st.ok /\ (~st.cyclic =>
                                            \A i \in 0..(g.n_vertices - 1) :
                                                st.vertices[i].value >= 0)]])

(***************************************************************************)
(* HASH FUNCTIONS (hash.c:467-555)                                         *)
(***************************************************************************)

\* variant of hash_function_reset: the order is set the first time only
hash_function_reset_once(hash_function, n) ==
    [hash_function EXCEPT !.salt_length = 0, !.salt = <<>>,
                          !.n = IF hash_function.n = 0 THEN n ELSE hash_function.n]

\* hash_function_reset
hash_function_reset(hash_function, n) ==
    [hash_function EXCEPT !.salt_length = 0, !.salt = <<>>, !.n = n]

\* hash.c:101: hash_function_result is ssize_t; its largest value where
\* ssize_t has 32 bits
hash_function_result_max == 2147483647

\* a + b in hash_function_result: signed overflow is undefined in C; the sum
\* is the one two's complement arithmetic gives, which the assertions that
\* follow every sum and product of the hash functions then reject
ssize_add(a, b) ==
    IF a >= 0 /\ b >= 0 /\ a > hash_function_result_max - b
    THEN (a - hash_function_result_max - 1) + (b - hash_function_result_max - 1)
    ELSE IF a < 0 /\ b < 0 /\ a < (-hash_function_result_max - 1) - b
    THEN (a + hash_function_result_max + 1) + (b + hash_function_result_max + 1)
    ELSE a + b

\* c * s in hash_function_result for a byte c, by doubling when the product
\* may leave the range
RECURSIVE ssize_mul_wrap(_, _)
ssize_mul_wrap(c, s) ==
    IF c = 0 THEN 0
    ELSE Bind(ssize_mul_wrap(c \div 2, s),
              LAMBDA half :
                  Bind(ssize_add(half, half),
                       LAMBDA double :
                           IF c % 2 = 1 THEN ssize_add(double, s) ELSE double))

ssize_mul(c, s) ==
    IF s <= hash_function_result_max \div 255 THEN c * s ELSE ssize_mul_wrap(c, s)

\* hash.c:508-510: the term of byte i
hash_term(salt, key, i) == ssize_mul(UChar(key[i + 1]), salt[i + 1])

\* hash.c:506-514: the sum over bytes i..length-1 of key, added to sum
RECURSIVE hash_sum(_, _, _, _, _)
hash_sum(salt, key, length, i, sum) ==
    IF i >= length THEN sum
    ELSE hash_sum(salt, key, length, i + 1, ssize_add(sum, hash_term(salt, key, i)))

\* hash.c:506-516: the assertions x >= 0 and sum + x >= sum for the bytes
\* i..length-1, and sum >= 0 after the loop
RECURSIVE hash_sum_asserts(_, _, _, _, _)
hash_sum_asserts(salt, key, length, i, sum) ==
    IF i >= length THEN sum >= 0
    ELSE \E x \in { hash_term(salt, key, i) } :
             /\ x >= 0
             /\ \E next \in { ssize_add(sum, x) } :
                    /\ next >= sum
                    /\ hash_sum_asserts(salt, key, length, i + 1, next)

\* hash.c:511-516: the assertions x >= 0, sum + x >= sum and sum >= 0
hash_sum_ok(salt, key, length) == hash_sum_asserts(salt, key, length, 0, 0)

\* hash.c:500-502: the salt drawn for positions salt_length..length-1
salt_drawn(stream, count, n) == [i \in 1..count |-> stream[i] % n]

\* variant of hash_function_extend: the entries the salt has are rewritten
\* when the salt is extended
hash_function_extend_rewriting(hash_function, length, stream) ==
    IF hash_function.salt_length < length
    THEN [hash_function EXCEPT
             !.salt = [j \in 1..hash_function.salt_length |->
                          (hash_function.salt[j] + 1) % hash_function.n]
                          \o salt_drawn(stream, length - hash_function.salt_length,
                                        hash_function.n),
             !.salt_length = length,
             !.salt_capacity = Max(hash_function.salt_capacity, length)]
    ELSE hash_function

\* hash.c:491-504: the salt extended to length
hash_function_extend(hash_function, length, stream) ==
    IF hash_function.salt_length < length
    THEN [hash_function EXCEPT
             !.salt = hash_function.salt
                          \o salt_drawn(stream, length - hash_function.salt_length,
                                        hash_function.n),
             !.salt_length = length,
             !.salt_capacity = Max(hash_function.salt_capacity, length)]
    ELSE hash_function

\* hash_function_hash: [f, result, stream, drawn, ok]; stream is what rand()
\* is going to return, drawn the number of rand() calls made
hash_function_hash(hash_function, key, length, stream) ==
    Bind(hash_function_extend(hash_function, length, stream),
         LAMBDA f :
             [f |-> f,
              result |-> hash_sum(f.salt, key, length, 0, 0) % f.n,
              stream |-> SubSeq(stream, f.salt_length - hash_function.salt_length + 1,
                                Len(stream)),
              drawn |-> f.salt_length - hash_function.salt_length,
              ok |-> hash_sum_ok(f.salt, key, length)])

\* variant of hash_term_const: the char multiplied as it is, without the cast
\* to unsigned char
hash_term_const_signed(salt, key, i) == key[i + 1] * salt[i + 1]

\* hash.c:542-544: the term of byte i, in hash_function_hash_const
hash_term_const(salt, key, i) == ssize_mul(UChar(key[i + 1]), salt[i + 1])

\* hash.c:540-548: the same sum, in hash_function_hash_const
RECURSIVE hash_sum_const(_, _, _, _, _)
hash_sum_const(salt, key, length, i, sum) ==
    IF i >= length THEN sum
    ELSE hash_sum_const(salt, key, length, i + 1,
                        ssize_add(sum, hash_term_const(salt, key, i)))

\* hash.c:540-550: the assertions of hash_function_hash_const, for the bytes
\* i..length-1 and after the loop
RECURSIVE hash_sum_const_asserts(_, _, _, _, _)
hash_sum_const_asserts(salt, key, length, i, sum) ==
    IF i >= length THEN sum >= 0
    ELSE \E x \in { hash_term_const(salt, key, i) } :
             /\ x >= 0
             /\ \E next \in { ssize_add(sum, x) } :
                    /\ next >= sum
                    /\ hash_sum_const_asserts(salt, key, length, i + 1, next)

\* hash.c:545-550: its assertions
hash_sum_const_ok(salt, key, length) == hash_sum_const_asserts(salt, key, length, 0, 0)

\* hash_function_hash_const: [result, ok]; never adds salt, assert(0) instead
hash_function_hash_const(hash_function, key, length) ==
    IF hash_function.salt_length < length
    THEN [result |-> 0, ok |-> FALSE]
    ELSE [result |-> hash_sum_const(hash_function.salt, key, length, 0, 0)
                         % hash_function.n,
          ok |-> hash_sum_const_ok(hash_function.salt, key, length)]

(***************************************************************************)
(* THE INPUT SET (hash.c:896-1115)                                         *)
(***************************************************************************)

\* hash_inputs_grow: capacity grown by n
hash_inputs_grow(hi, n) == [hi EXCEPT !.capacity = hi.capacity + n]

\* hash.c:1015-1023: the record of a copied key: the first length bytes of
\* key in a new buffer of length + 1 bytes, a zero byte after them
hash_input_copy(key, length, ptr) ==
    [key |-> SubSeq(key, 1, length) \o << 0 >>, length |-> length, ptr |-> ptr]

\* variant of hash_inputs_added: a key of length 0 is added like any other
hash_inputs_added_any_length(hi, key, length, ptr) ==
    LET grown == IF hi.n_inputs = hi.capacity
                 THEN hash_inputs_grow(hi, hash_inputs_grow_increment)
                 ELSE hi
    IN  [grown EXCEPT !.inputs = Append(hi.inputs, hash_input_copy(key, length, ptr)),
                      !.n_inputs = hi.n_inputs + 1]

\* hash_inputs_add as a function of the struct: the struct afterwards
hash_inputs_added(hi, key, length, ptr) ==
    IF length = 0 THEN hi
    ELSE LET grown == IF hi.n_inputs = hi.capacity
                      THEN hash_inputs_grow(hi, hash_inputs_grow_increment)
                      ELSE hi
         IN  [grown EXCEPT !.inputs = Append(hi.inputs, hash_input_copy(key, length, ptr)),
                           !.n_inputs = hi.n_inputs + 1]

\* hash.c:1108-1112: the record of a key that is not copied: the pointer the
\* caller gave, no zero byte added
hash_input_no_copy(key, length, ptr) ==
    [key |-> key, length |-> length, ptr |-> ptr]

\* hash_inputs_add_no_copy as a function of the struct: the struct afterwards
hash_inputs_added_no_copy(hi, key, length, ptr) ==
    IF length = 0 THEN hi
    ELSE LET grown == IF hi.n_inputs = hi.capacity
                      THEN hash_inputs_grow(hi, hash_inputs_grow_increment)
                      ELSE hi
         IN  [grown EXCEPT !.inputs = Append(hi.inputs, hash_input_no_copy(key, length, ptr)),
                           !.n_inputs = hi.n_inputs + 1]

\* variant of inputs_has_key: the keys compared as C strings, up to the first
\* zero byte
inputs_has_key_string(hi, key, length) ==
    \E i \in 1..hi.n_inputs :
        /\ hi.inputs[i].length = length
        /\ \A j \in 1..length :
               (\A k \in 1..j : key[k] # 0 /\ hi.inputs[i].key[k] # 0)
                   => hi.inputs[i].key[j] = key[j]
        /\ \A j \in 1..length :
               (\A k \in 1..(j - 1) : key[k] # 0 /\ hi.inputs[i].key[k] # 0)
                   => ((key[j] = 0) <=> (hi.inputs[i].key[j] = 0))

\* hash.c:1051-1068: a record of the set has this length and these bytes
inputs_has_key(hi, key, length) ==
    \E i \in 1..hi.n_inputs :
        /\ hi.inputs[i].length = length
        /\ \A j \in 1..length : hi.inputs[i].key[j] = key[j]

\* hash_inputs_add_safe as a function of the struct: the struct afterwards.
\* The return for length 0 (hash.c:1048) is compiled when HASH_NO_WARNINGS is
\* not defined; no_warnings tells that it is defined.
hash_inputs_added_safe(hi, key, length, ptr, no_warnings) ==
    IF length = 0 /\ ~no_warnings THEN hi
    ELSE IF inputs_has_key(hi, key, length) THEN hi
    ELSE hash_inputs_added(hi, key, length, ptr)

\* hash_inputs_n_keys
hash_inputs_n_keys(hi) == hi.n_inputs

\* hash_inputs_apply: the records fn is called with, in the order of the calls
hash_inputs_apply(hi) == [i \in 1..hi.n_inputs |-> hi.inputs[i]]

\* the longest key of an input set
RECURSIVE max_length(_, _)
max_length(inputs, i) ==
    IF i > Len(inputs) THEN 0
    ELSE Max(inputs[i].length, max_length(inputs, i + 1))

(***************************************************************************)
(* THE HASH TABLE (hash.c:557-877)                                         *)
(***************************************************************************)

\* variant of create_is_empty: the empty input set is not refused
create_is_empty_never(n_keys) == FALSE

\* hash.c:587: hash_create returns NULL for an input set without keys
create_is_empty(n_keys) == n_keys = 0

\* variant of create_n_initial: as many vertices as keys
create_n_initial_keys(n_keys) == n_keys

\* hash.c:591: the first graph order
create_n_initial(n_keys) == n_keys + 1

\* hash.c:609: the graph order at which hash_create gives up
vertices_max(n_keys) == hash_iterations_max_multiplier * create_n_initial(n_keys)

\* variant of create_grows: the graph grows at the top of every pass but the
\* first
create_grows_always(it) == it > 0

\* hash.c:612-613: is this iteration one that grows the graph
create_grows(it) == it % hash_iterations_grow_every_n_trials = 0 /\ it > 0

\* hash.c:615-616: the scaled graph order after a growth step
create_scaled_next(scaled) ==
    (scaled * hash_iterations_growth_multiplier) \div hash_iterations_growth_multiplier_divider

\* variant of create_n_next: the graph order never grows
create_n_next_stuck(n, scaled_next) == n

\* hash.c:618-624: the graph order after a growth step
create_n_next(n, scaled_next) ==
    LET n_vertices_next == scaled_next \div hash_iterations_growth_multiplier_divider
    IN  IF n_vertices_next > n THEN n_vertices_next ELSE n

\* the number of rand() calls hashing every key of inputs makes, given the
\* salt the two functions already have (hash.c:491, 500)
rand_needed(hf1, hf2, inputs) ==
    LET m == max_length(inputs, 1)
    IN  Max(0, m - hf1.salt_length) + Max(0, m - hf2.salt_length)

\* hash.c:661-699: hash key i, i + 1, ... with both functions and connect
\* the two results; st is [graph, f1, f2, stream, drawn, ok]
RECURSIVE create_hash_keys(_, _, _)
create_hash_keys(st, inputs, i) ==
    IF i >= Len(inputs) THEN st
    ELSE LET key == inputs[i + 1].key
             length == inputs[i + 1].length
         IN  Bind(hash_function_hash(st.f1, key, length, st.stream), LAMBDA h1 :
             Bind(hash_function_hash(st.f2, key, length, h1.stream), LAMBDA h2 :
             Bind([graph |-> graph_biconnect(st.graph, h1.result, h2.result, i),
                   f1 |-> h1.f, f2 |-> h2.f, stream |-> h2.stream,
                   drawn |-> st.drawn + h1.drawn + h2.drawn,
                   ok |-> st.ok /\ h1.ok /\ h2.ok],
                  LAMBDA st1 : create_hash_keys(st1, inputs, i + 1))))

\* hash.c:707-721: the self-check after the loop; TRUE when every assertion
\* holds (the re-hash would draw from stream if it needed salt)
create_self_check(g, hf1, hf2, inputs, stream) ==
    \A i \in 0..(Len(inputs) - 1) :
        LET key == inputs[i + 1].key
            length == inputs[i + 1].length
            h1 == hash_function_hash(hf1, key, length, stream)
            h2 == hash_function_hash(hf2, key, length, stream)
            v == (g.vertices[h1.result].value + g.vertices[h2.result].value) % g.n_vertices
        IN  h1.ok /\ h2.ok /\ i = v

\* variant of create_inputs_left: the input set keeps its records
create_inputs_left_intact(hi) == hi

\* hash.c:767: the input set the records were moved out of is left empty
create_inputs_left(hi) == hash_inputs_empty

\* variant of create_table: the records are not moved into the table
create_table_without_keys(hi, hf1, hf2, g) ==
    [keys |-> hash_inputs_empty, f1 |-> hf1, f2 |-> hf2,
     values |-> [i \in 0..(g.n_vertices - 1) |-> g.vertices[i].value],
     n_values |-> g.n_vertices]

\* hash.c:754-771: the table hash_create returns
create_table(hi, hf1, hf2, g) ==
    [keys |-> hi, f1 |-> hf1, f2 |-> hf2,
     values |-> [i \in 0..(g.n_vertices - 1) |-> g.vertices[i].value],
     n_values |-> g.n_vertices]

\* variant of lookup_too_long: no query is refused for its length
lookup_too_long_never(h, length) == FALSE

\* hash.c:849: a query longer than the salt of either function is a miss
lookup_too_long(h, length) == length > h.f1.salt_length \/ length > h.f2.salt_length

\* variant of lookup_matches: the bytes compared as far as the stored buffer
\* goes, the lengths not compared
lookup_matches_bytes(input, key, length) ==
    \A i \in 1..Min(length, input.length + 1) : input.key[i] = key[i]

\* hash.c:866-874: the stored record has the length and the bytes of the query
lookup_matches(input, key, length) ==
    /\ input.length = length
    /\ \A i \in 1..length : input.key[i] = key[i]

\* hash_lookup: [value, hashed, ok]: value is NULL or [input |-> i] for the
\* pointer &hash->keys.inputs[i], hashed tells whether the hash functions
\* were called, ok whether every assertion held
hash_lookup(h, key, length) ==
    LET asserted == h.f1.n = h.n_values /\ h.f2.n = h.n_values
    IN  IF lookup_too_long(h, length)
        THEN [value |-> NULL, hashed |-> FALSE, ok |-> asserted]
        ELSE LET h1 == hash_function_hash_const(h.f1, key, length)
                 h2 == hash_function_hash_const(h.f2, key, length)
                 sum == h.values[h1.result] + h.values[h2.result]
                 i == sum % h.n_values
                 ok == asserted /\ h1.ok /\ h2.ok /\ sum >= 0
             IN  IF i >= h.keys.n_inputs
                 THEN [value |-> NULL, hashed |-> TRUE, ok |-> ok]
                 ELSE IF lookup_matches(h.keys.inputs[i + 1], key, length)
                 THEN [value |-> [input |-> i], hashed |-> TRUE, ok |-> ok]
                 ELSE [value |-> NULL, hashed |-> TRUE, ok |-> ok]

(***************************************************************************)
(* The state machine                                                       *)
(***************************************************************************)

Init ==
    /\ hash_inputs = hash_inputs_empty      \* hash_inputs_create()
    /\ hash = NULL
    /\ pc = "idle"
    /\ graph = NULL
    /\ f1 = hash_function_empty
    /\ f2 = hash_function_empty
    /\ iteration = 0
    /\ n_vertices = 0
    /\ n_vertices_scaled = 0
    /\ heap = {}
    /\ rand_calls = 0
    /\ ret = [op |-> "hash_inputs_create", value |-> PENDING]
    /\ key_memory = << >>

\* the key records alive, in the input set and in the table
n_records == hash_inputs.n_inputs + (IF hash = NULL THEN 0 ELSE hash.keys.n_inputs)

\* hash.c:1016: the buffer malloc gives for the copy of a key
key_malloc == [owner |-> "library", frees |-> 0]

\* hash_inputs_add(hash_inputs, key, length, ptr)
hash_inputs_add(key, length, ptr) ==
    /\ pc = "idle"
    /\ hash_inputs # NULL
    /\ hash_inputs' = hash_inputs_added(hash_inputs, key, length, ptr)
    /\ key_memory' = IF length = 0 THEN key_memory ELSE Append(key_memory, key_malloc)
    /\ ret' = [op |-> "hash_inputs_add", value |-> PENDING,
               key |-> key, length |-> length, ptr |-> ptr]
    /\ rand_calls' = 0
    /\ UNCHANGED << hash, pc, graph, f1, f2, iteration, n_vertices,
                    n_vertices_scaled, heap >>

\* hash.c:626: the graph has grown to the order at which hash_create gives up
create_gives_up(n, n_keys) == n >= vertices_max(n_keys)

\* hash.c:612-659: the top of a pass of the loop, entered with the iteration
\* counter it: the growth step, then either the return of NULL (fail) or
\* the counter advanced, the graph wiped and both functions reset
create_pass_top(g, hf1, hf2, it, n, scaled, n_keys) ==
    LET grows == create_grows(it)
        scaled_next == IF grows THEN create_scaled_next(scaled) ELSE scaled
        n_next == IF grows THEN create_n_next(n, scaled_next) ELSE n
    IN  IF grows /\ create_gives_up(n_next, n_keys)
        THEN [fail |-> TRUE]
        ELSE [fail |-> FALSE,
              graph |-> graph_wipe(IF grows THEN graph_at_least(g, n_next) ELSE g),
              f1 |-> hash_function_reset(hf1, n_next),
              f2 |-> hash_function_reset(hf2, n_next),
              iteration |-> it + 1,
              n_vertices |-> n_next,
              n_vertices_scaled |-> scaled_next]

\* hash.c:661-704: the rest of the pass: every key hashed and connected, then
\* graph_resolve; [acyclic, graph, f1, f2, drawn, ok]
create_pass_rest(g, hf1, hf2, inputs, stream) ==
    Bind(create_hash_keys([graph |-> g, f1 |-> hf1, f2 |-> hf2,
                           stream |-> stream, drawn |-> 0, ok |-> TRUE],
                          inputs, 0),
         LAMBDA st :
             IF st.ok /\ st.graph.ok
             THEN Bind(graph_resolve(st.graph),
                       LAMBDA r : [acyclic |-> r.acyclic, graph |-> r.graph,
                                   f1 |-> st.f1, f2 |-> st.f2,
                                   drawn |-> st.drawn, ok |-> r.graph.ok])
             ELSE [acyclic |-> FALSE, graph |-> st.graph, f1 |-> st.f1, f2 |-> st.f2,
                   drawn |-> st.drawn, ok |-> FALSE])

\* variant of create_fail: NULL returned with nothing freed
create_fail_leaking ==
    /\ pc' = "idle"
    /\ ret' = [op |-> "hash_create", value |-> NULL]
    /\ UNCHANGED << heap, graph, f1, f2, iteration, n_vertices, n_vertices_scaled >>

\* hash.c:634-637: both salts freed, the graph destroyed, NULL returned
create_fail ==
    /\ pc' = "idle"
    /\ ret' = [op |-> "hash_create", value |-> NULL]
    /\ heap' = heap \ {"f1.salt", "f2.salt", "graph"}
    /\ graph' = NULL
    /\ f1' = hash_function_empty
    /\ f2' = hash_function_empty
    /\ iteration' = 0
    /\ n_vertices' = 0
    /\ n_vertices_scaled' = 0

\* hash_create is at the top of a pass whose outcome is top
create_continue(top) ==
    IF top.fail
    THEN create_fail
    ELSE /\ pc' = "hash"
         /\ ret' = [op |-> "hash_create", value |-> PENDING]
         /\ graph' = top.graph
         /\ f1' = top.f1
         /\ f2' = top.f2
         /\ iteration' = top.iteration
         /\ n_vertices' = top.n_vertices
         /\ n_vertices_scaled' = top.n_vertices_scaled

\* an assertion failed: the program is aborted
abort ==
    /\ pc' = "abort"
    /\ UNCHANGED << hash_inputs, hash, graph, f1, f2, iteration, n_vertices,
                    n_vertices_scaled, heap, rand_calls, ret, key_memory >>

\* hash_create, hash.c:585-659: from the call to the first pass of the loop,
\* up to the loop over the keys
hash_create_enter ==
    /\ pc = "idle"
    /\ hash = NULL
    /\ hash_inputs # NULL
    /\ rand_calls' = 0
    /\ UNCHANGED << hash_inputs, hash, key_memory >>
    /\ IF create_is_empty(hash_inputs.n_inputs)
       THEN /\ ret' = [op |-> "hash_create", value |-> NULL]
            /\ UNCHANGED << pc, graph, f1, f2, iteration, n_vertices,
                            n_vertices_scaled, heap >>
       ELSE LET n == create_n_initial(hash_inputs.n_inputs)
            IN  /\ heap' = heap \cup {"graph"}
                /\ \E top \in { create_pass_top(
                                    graph_at_least(graph_create, n),
                                    hash_function_empty, hash_function_empty, 0, n,
                                    n * hash_iterations_growth_multiplier_divider,
                                    hash_inputs.n_inputs) } :
                       create_continue(top)

\* hash_create, hash.c:661-775 and 612-659: the keys hashed and connected and
\* the graph resolved; then either the self-check, the table and the return,
\* or the top of the next pass
hash_create_pass ==
    /\ pc = "hash"
    /\ iteration < MaxIterations
    /\ UNCHANGED key_memory
    /\ \E stream \in [1..rand_needed(f1, f2, hash_inputs.inputs) -> 0..RandMax] :
         \E r \in { create_pass_rest(graph, f1, f2, hash_inputs.inputs, stream) } :
             IF ~r.ok THEN abort
             ELSE IF ~r.acyclic
             THEN /\ rand_calls' = rand_calls + r.drawn
                  /\ \E top \in { create_pass_top(r.graph, r.f1, r.f2, iteration,
                                                   n_vertices, n_vertices_scaled,
                                                   hash_inputs.n_inputs) } :
                         /\ create_continue(top)
                         /\ IF top.fail THEN TRUE
                            ELSE heap' = heap \cup {"f1.salt", "f2.salt"}
                  /\ UNCHANGED << hash_inputs, hash >>
             ELSE \E check \in [1..rand_needed(r.f1, r.f2, hash_inputs.inputs) -> 0..RandMax] :
                    IF ~create_self_check(r.graph, r.f1, r.f2, hash_inputs.inputs, check)
                    THEN abort
                    ELSE /\ hash' = create_table(hash_inputs, r.f1, r.f2, r.graph)
                         /\ hash_inputs' = create_inputs_left(hash_inputs)
                         /\ heap' = (heap \ {"graph", "f1.salt", "f2.salt"})
                                      \cup {"hash", "hash.values", "hash.f1.salt",
                                            "hash.f2.salt"}
                         /\ rand_calls' = rand_calls + r.drawn
                         /\ pc' = "idle"
                         /\ ret' = [op |-> "hash_create", value |-> HASH]
                         /\ graph' = NULL
                         /\ f1' = hash_function_empty
                         /\ f2' = hash_function_empty
                         /\ iteration' = 0
                         /\ n_vertices' = 0
                         /\ n_vertices_scaled' = 0

\* variant of hash_lookup_call: the salt of both functions is extended to the
\* length of the query, as hash_function_hash does, before the lookup
hash_lookup_call_salting(key, length) ==
    /\ pc = "idle"
    /\ hash # NULL
    /\ hash' = [hash EXCEPT
                   !.f1 = hash_function_extend(hash.f1, length, [i \in 1..length |-> 0]),
                   !.f2 = hash_function_extend(hash.f2, length, [i \in 1..length |-> 0])]
    /\ ret' = [op |-> "hash_lookup", key |-> key, length |-> length,
               value |-> hash_lookup(hash', key, length).value, hashed |-> TRUE]
    /\ rand_calls' = Max(0, length - hash.f1.salt_length)
                         + Max(0, length - hash.f2.salt_length)
    /\ UNCHANGED << hash_inputs, pc, graph, f1, f2, iteration,
                    n_vertices, n_vertices_scaled, heap, key_memory >>

\* hash_lookup(hash, key, length) called and returned
hash_lookup_call(key, length) ==
    /\ pc = "idle"
    /\ hash # NULL
    /\ \E r \in { hash_lookup(hash, key, length) } :
           IF ~r.ok THEN abort
           ELSE /\ ret' = [op |-> "hash_lookup", key |-> key, length |-> length,
                           value |-> r.value, hashed |-> r.hashed]
                /\ rand_calls' = 0
                /\ UNCHANGED << hash_inputs, hash, pc, graph, f1, f2, iteration,
                                n_vertices, n_vertices_scaled, heap, key_memory >>

\* the caller adds a key of Keys, or calls with length 0
AddKey ==
    /\ n_records < MaxKeys
    /\ \E key \in Keys : \E length \in {0, Len(key)} :
           hash_inputs_add(key, length, Payload(n_records + 1))

\* the caller looks up a byte string of Queries
Lookup == \E key \in Queries : hash_lookup_call(key, Len(key))

Next ==
    \/ AddKey
    \/ hash_create_enter
    \/ hash_create_pass
    \/ Lookup

Spec == Init /\ [][Next]_vars

\* hash_create runs to completion once called: the library is single-threaded
\* and no operation suspends
FairSpec == Spec /\ WF_vars(hash_create_pass)

(***************************************************************************)
(* The scenario of the keys made of zero bytes only (spec.md, E3)          *)
(***************************************************************************)

ZeroKeys == { <<0>>, <<0, 0>>, <<0, 0, 0>> }

\* the caller adds one of the three keys
AddZeroKey ==
    /\ n_records < Cardinality(ZeroKeys)
    /\ \E key \in ZeroKeys : hash_inputs_add(key, Len(key), Payload(n_records + 1))

NextZeroKeys ==
    \/ AddZeroKey
    \/ hash_create_enter
    \/ hash_create_pass

SpecZeroKeys == Init /\ [][NextZeroKeys]_vars

(***************************************************************************)
(* The life of the input set, the table and the key buffers                *)
(***************************************************************************)

\* key buffers handed out in a behaviour of SpecLifecycle
MaxLifeKeys == 2

\* two keys equal as C strings and different as byte strings, and a key of
\* another length
LifeKeys == { <<1>>, <<0, 1>>, <<0, -2>> }

LifeQueries == LifeKeys \cup { <<0>>, <<0, 1, 0>> }

\* the buffer of a record: the k-th record added holds a pointer to the k-th
\* buffer of key_memory (its payload is Payload(k))
key_buffer(input) == input.ptr.payload

\* hash.c:1108: the buffer of a key added with hash_inputs_add_no_copy is the
\* caller's
key_borrowed == [owner |-> "caller", frees |-> 0]

\* variant of free_keys: the buffers of the caller are left alone
free_keys_owned(mem, inputs) ==
    [k \in DOMAIN mem |->
        [mem[k] EXCEPT !.frees =
            IF mem[k].owner = "caller" THEN @
            ELSE @ + Cardinality({ i \in DOMAIN inputs : key_buffer(inputs[i]) = k })]]

\* free(inputs[i].key) for every record of inputs
free_keys(mem, inputs) ==
    [k \in DOMAIN mem |->
        [mem[k] EXCEPT !.frees =
            @ + Cardinality({ i \in DOMAIN inputs : key_buffer(inputs[i]) = k })]]

\* the allocations of a table
hash_allocations == { "hash", "hash.values", "hash.f1.salt", "hash.f2.salt" }

\* hash.c:794-797
hash_n_keys(h) == h.keys.n_inputs

\* variant of hash_get_keys: the number of values reported as the number of
\* keys
hash_get_keys_n_values(h) == [keys |-> h.keys.inputs, n_keys_out |-> h.n_values]

\* hash.c:819-826: the array returned and the number stored through
\* n_keys_out
hash_get_keys(h) == [keys |-> h.keys.inputs, n_keys_out |-> h.keys.n_inputs]

\* hash.c:784-786 of hash_destroy: the key buffers after it, the keys freed
\* unless the array pointer is null
hash_destroy_keys(h, mem) ==
    IF h.keys.inputs # << >> THEN free_keys(mem, h.keys.inputs) ELSE mem

\* variant of hash_recycle_keys: the table destroyed before its array is
\* detached
hash_recycle_keys_destroyed(h, mem) == hash_destroy_keys(h, mem)

\* hash.c:811-812 of hash_recycle_inputs: the array pointer of the table set
\* to null, then hash_destroy
hash_recycle_keys(h, mem) == hash_destroy_keys([h EXCEPT !.keys.inputs = << >>], mem)

\* hash.c:909-918: the set hash_inputs_from_hash returns: room for the keys
\* of the table is made and the records are copied into it, n_inputs stays
\* what hash_inputs_create made it
hash_inputs_from_hash(h) == hash_inputs_grow(hash_inputs_empty, h.keys.n_inputs)

\* hash_inputs_add_safe(hash_inputs, key, length, ptr); no_warnings: the
\* library was built with HASH_NO_WARNINGS
hash_inputs_add_safe(key, length, ptr, no_warnings) ==
    /\ pc = "idle"
    /\ hash_inputs # NULL
    /\ hash_inputs' = hash_inputs_added_safe(hash_inputs, key, length, ptr, no_warnings)
    /\ key_memory' = IF hash_inputs' = hash_inputs THEN key_memory
                     ELSE Append(key_memory, key_malloc)
    /\ ret' = [op |-> "hash_inputs_add_safe", value |-> PENDING,
               key |-> key, length |-> length, ptr |-> ptr,
               no_warnings |-> no_warnings]
    /\ rand_calls' = 0
    /\ UNCHANGED << hash, pc, graph, f1, f2, iteration, n_vertices,
                    n_vertices_scaled, heap >>

\* hash_inputs_add_no_copy(hash_inputs, key, length, ptr)
hash_inputs_add_no_copy(key, length, ptr) ==
    /\ pc = "idle"
    /\ hash_inputs # NULL
    /\ hash_inputs' = hash_inputs_added_no_copy(hash_inputs, key, length, ptr)
    /\ key_memory' = IF length = 0 THEN key_memory ELSE Append(key_memory, key_borrowed)
    /\ ret' = [op |-> "hash_inputs_add_no_copy", value |-> PENDING,
               key |-> key, length |-> length, ptr |-> ptr]
    /\ rand_calls' = 0
    /\ UNCHANGED << hash, pc, graph, f1, f2, iteration, n_vertices,
                    n_vertices_scaled, heap >>

\* hash_n_keys(hash) called and returned
hash_n_keys_call ==
    /\ pc = "idle"
    /\ hash # NULL
    /\ ret' = [op |-> "hash_n_keys", value |-> [n_keys |-> hash_n_keys(hash)]]
    /\ rand_calls' = 0
    /\ UNCHANGED << hash_inputs, hash, pc, graph, f1, f2, iteration, n_vertices,
                    n_vertices_scaled, heap, key_memory >>

\* hash_get_keys(hash, n_keys_out) called and returned; want: n_keys_out is
\* not null (-1 stands for nothing stored)
hash_get_keys_call(want) ==
    /\ pc = "idle"
    /\ hash # NULL
    /\ \E r \in { hash_get_keys(hash) } :
           ret' = [op |-> "hash_get_keys",
                   value |-> [keys |-> r.keys,
                              n_keys_out |-> IF want THEN r.n_keys_out ELSE -1]]
    /\ rand_calls' = 0
    /\ UNCHANGED << hash_inputs, hash, pc, graph, f1, f2, iteration, n_vertices,
                    n_vertices_scaled, heap, key_memory >>

\* hash_destroy(hash), hash.c:779-791
hash_destroy_call ==
    /\ pc = "idle"
    /\ hash # NULL
    /\ key_memory' = hash_destroy_keys(hash, key_memory)
    /\ heap' = heap \ hash_allocations
    /\ hash' = NULL
    /\ ret' = [op |-> "hash_destroy", value |-> PENDING]
    /\ rand_calls' = 0
    /\ UNCHANGED << hash_inputs, pc, graph, f1, f2, iteration, n_vertices,
                    n_vertices_scaled >>

\* hash_recycle_inputs(hash), hash.c:806-814; the caller keeps the set
\* returned as its input set when it has none
hash_recycle_inputs_call ==
    /\ pc = "idle"
    /\ hash # NULL
    /\ ret' = [op |-> "hash_recycle_inputs", value |-> hash.keys]
    /\ key_memory' = hash_recycle_keys(hash, key_memory)
    /\ heap' = heap \ hash_allocations
    /\ hash' = NULL
    /\ hash_inputs' = IF hash_inputs = NULL THEN hash.keys ELSE hash_inputs
    /\ rand_calls' = 0
    /\ UNCHANGED << pc, graph, f1, f2, iteration, n_vertices, n_vertices_scaled >>

\* hash_inputs_from_hash(hash), hash.c:904-918
hash_inputs_from_hash_call ==
    /\ pc = "idle"
    /\ hash # NULL
    /\ ret' = [op |-> "hash_inputs_from_hash", value |-> hash_inputs_from_hash(hash)]
    /\ rand_calls' = 0
    /\ UNCHANGED << hash_inputs, hash, pc, graph, f1, f2, iteration, n_vertices,
                    n_vertices_scaled, heap, key_memory >>

\* hash_inputs_destroy(hash_inputs), hash.c:928-936
hash_inputs_destroy_call ==
    /\ pc = "idle"
    /\ hash_inputs # NULL
    /\ key_memory' = free_keys(key_memory, hash_inputs.inputs)
    /\ hash_inputs' = NULL
    /\ ret' = [op |-> "hash_inputs_destroy", value |-> PENDING]
    /\ rand_calls' = 0
    /\ UNCHANGED << hash, pc, graph, f1, f2, iteration, n_vertices,
                    n_vertices_scaled, heap >>

\* hash_inputs_destroy_except_keys(hash_inputs), hash.c:946-951
hash_inputs_destroy_except_keys_call ==
    /\ pc = "idle"
    /\ hash_inputs # NULL
    /\ hash_inputs' = NULL
    /\ ret' = [op |-> "hash_inputs_destroy_except_keys", value |-> PENDING]
    /\ rand_calls' = 0
    /\ UNCHANGED << hash, pc, graph, f1, f2, iteration, n_vertices,
                    n_vertices_scaled, heap, key_memory >>

\* the caller adds a key of LifeKeys, or calls with length 0, as long as no
\* more than MaxLifeKeys key buffers are handed out
LifeAdd ==
    \E key \in LifeKeys : \E length \in {0, Len(key)} :
        /\ hash_inputs_add(key, length, Payload(Len(key_memory) + 1))
        /\ Len(key_memory') <= MaxLifeKeys

LifeAddSafe ==
    \E key \in LifeKeys : \E length \in {0, Len(key)} : \E no_warnings \in BOOLEAN :
        /\ hash_inputs_add_safe(key, length, Payload(Len(key_memory) + 1), no_warnings)
        /\ Len(key_memory') <= MaxLifeKeys

LifeAddNoCopy ==
    \E key \in LifeKeys : \E length \in {0, Len(key)} :
        /\ hash_inputs_add_no_copy(key, length, Payload(Len(key_memory) + 1))
        /\ Len(key_memory') <= MaxLifeKeys

LifeLookup == \E key \in LifeQueries : hash_lookup_call(key, Len(key))

GetKeys == \E want \in BOOLEAN : hash_get_keys_call(want)

NextLifecycle ==
    \/ LifeAdd
    \/ LifeAddSafe
    \/ LifeAddNoCopy
    \/ hash_create_enter
    \/ hash_create_pass
    \/ LifeLookup
    \/ hash_n_keys_call
    \/ GetKeys
    \/ hash_recycle_inputs_call
    \/ hash_inputs_from_hash_call
    \/ hash_destroy_call
    \/ hash_inputs_destroy_call
    \/ hash_inputs_destroy_except_keys_call

SpecLifecycle == Init /\ [][NextLifecycle]_vars

(***************************************************************************)
(* The key buffers hash_inputs_add allocates, over the operations that     *)
(* create, fill, build from, recycle and destroy (test.c:80-113,           *)
(* reuse_test.c): the caller holds one input set at a time.                *)
(***************************************************************************)

\* hash_inputs_create(), hash.c:897-902: the caller has no input set and
\* creates one
hash_inputs_create_call ==
    /\ pc = "idle"
    /\ hash_inputs = NULL
    /\ hash_inputs' = hash_inputs_empty
    /\ ret' = [op |-> "hash_inputs_create", value |-> PENDING]
    /\ rand_calls' = 0
    /\ UNCHANGED << hash, pc, graph, f1, f2, iteration, n_vertices,
                    n_vertices_scaled, heap, key_memory >>

\* hash_recycle_inputs by a caller that has destroyed its input set
RecycleAsInputs ==
    /\ hash_inputs = NULL
    /\ hash_recycle_inputs_call

NextOwnership ==
    \/ hash_inputs_create_call
    \/ LifeAdd
    \/ hash_create_enter
    \/ hash_create_pass
    \/ RecycleAsInputs
    \/ hash_inputs_destroy_call
    \/ hash_destroy_call

SpecOwnership == Init /\ [][NextOwnership]_vars

(***************************************************************************)
(* The graph alone: graph_wipe, graph_biconnect of any two vertices for    *)
(* edge 0, 1, ..., then graph_resolve (hash.c:656, 661-704)                *)
(***************************************************************************)

\* the largest graph order
MaxVertices == 4

\* the labels of the edges of the graph g
graph_labels(g) ==
    UNION { { g.vertices[u].edges[j].value : j \in 1..Len(g.vertices[u].edges) }
            : u \in 0..(g.n_vertices - 1) }

\* the number of edges of the graph g: edge i has the label i
graph_n_edges(g) == Cardinality(graph_labels(g))

\* a wiped graph of any order hash_create can start with: one vertex more
\* than keys (hash.c:591), and one key at least
InitGraph ==
    /\ \E n \in create_n_initial(1)..MaxVertices :
           graph = graph_wipe(graph_at_least(graph_create, n))
    /\ pc = "graph"
    /\ ret = [op |-> "graph_wipe", value |-> PENDING]
    /\ hash_inputs = hash_inputs_empty
    /\ hash = NULL
    /\ f1 = hash_function_empty
    /\ f2 = hash_function_empty
    /\ iteration = 0
    /\ n_vertices = 0
    /\ n_vertices_scaled = 0
    /\ heap = {"graph"}
    /\ rand_calls = 0
    /\ key_memory = << >>

\* hash.c:695-698: the edge of the next key between any two vertices; there
\* are fewer keys than vertices
GraphBiconnect ==
    /\ pc = "graph"
    /\ create_n_initial(graph_n_edges(graph) + 1) <= graph.n_vertices
    /\ \E u, v \in 0..(graph.n_vertices - 1) :
           graph' = graph_biconnect(graph, u, v, graph_n_edges(graph))
    /\ ret' = [op |-> "graph_biconnect", value |-> PENDING]
    /\ UNCHANGED << hash_inputs, hash, pc, f1, f2, iteration, n_vertices,
                    n_vertices_scaled, heap, rand_calls, key_memory >>

\* hash.c:704: graph_resolve on the graph built
GraphResolve ==
    /\ pc = "graph"
    /\ \E r \in { graph_resolve(graph) } :
           /\ graph' = r.graph
           /\ ret' = [op |-> "graph_resolve", value |-> [acyclic |-> r.acyclic]]
    /\ pc' = "resolved"
    /\ UNCHANGED << hash_inputs, hash, f1, f2, iteration, n_vertices,
                    n_vertices_scaled, heap, rand_calls, key_memory >>

\* hash.c:646: the graph grown, after a pass, to any order up to MaxVertices
GraphAtLeast ==
    /\ pc = "resolved"
    /\ \E n \in graph.n_vertices..MaxVertices :
           /\ graph' = graph_at_least(graph, n)
           /\ ret' = [op |-> "graph_at_least",
                      value |-> [n |-> n, n_before |-> graph.n_vertices]]
    /\ pc' = "grown"
    /\ UNCHANGED << hash_inputs, hash, f1, f2, iteration, n_vertices,
                    n_vertices_scaled, heap, rand_calls, key_memory >>

\* hash.c:656: the graph wiped for the next pass
GraphWipe ==
    /\ pc \in {"resolved", "grown"}
    /\ graph' = graph_wipe(graph)
    /\ ret' = [op |-> "graph_wipe", value |-> PENDING]
    /\ pc' = "graph"
    /\ UNCHANGED << hash_inputs, hash, f1, f2, iteration, n_vertices,
                    n_vertices_scaled, heap, rand_calls, key_memory >>

NextGraph ==
    \/ GraphBiconnect
    \/ GraphResolve
    \/ GraphAtLeast
    \/ GraphWipe

SpecGraph == InitGraph /\ [][NextGraph]_vars

(***************************************************************************)
(* The graph of a build without preallocation of edges, where              *)
(* HASH_PREALLOC_EDGES is 0 (hash.c:46-48, 95): the operations hash_create *)
(* does on the graph, from graph_create on.                                *)
(***************************************************************************)

\* the largest HASH_PREALLOC_EDGES the build without preallocation is
\* compared with
MaxPrealloc == 3

\* the largest order of the graph of the build without preallocation
MaxPreallocVertices == 3

\* graph_create (hash.c:591-606): the empty graph
InitPrealloc ==
    /\ graph = graph_create
    /\ pc = "prealloc_resolved"
    /\ ret = [op |-> "graph_create", value |-> PENDING]
    /\ hash_inputs = hash_inputs_empty
    /\ hash = NULL
    /\ f1 = hash_function_empty
    /\ f2 = hash_function_empty
    /\ iteration = 0
    /\ n_vertices = 0
    /\ n_vertices_scaled = 0
    /\ heap = {"graph"}
    /\ rand_calls = 0
    /\ key_memory = << >>

\* hash.c:606, 646: the graph grown to any order up to MaxPreallocVertices,
\* and to two vertices at least
PreallocAtLeast ==
    /\ pc = "prealloc_resolved"
    /\ \E n \in Max(graph.n_vertices, create_n_initial(1))..MaxPreallocVertices :
           /\ graph' = graph_at_least_with(graph, n, vertex_prealloc(0))
           /\ ret' = [op |-> "graph_at_least", value |-> [n |-> n]]
    /\ pc' = "prealloc_grown"
    /\ UNCHANGED << hash_inputs, hash, f1, f2, iteration, n_vertices,
                    n_vertices_scaled, heap, rand_calls, key_memory >>

\* hash.c:656: the graph wiped for the next pass
PreallocWipe ==
    /\ pc \in {"prealloc_resolved", "prealloc_grown"}
    /\ graph.n_vertices > 0
    /\ graph' = graph_wipe(graph)
    /\ ret' = [op |-> "graph_wipe", value |-> PENDING]
    /\ pc' = "prealloc"
    /\ UNCHANGED << hash_inputs, hash, f1, f2, iteration, n_vertices,
                    n_vertices_scaled, heap, rand_calls, key_memory >>

\* hash.c:695-698: the edge of the next key between any two vertices; there
\* are fewer keys than vertices
PreallocBiconnect ==
    /\ pc = "prealloc"
    /\ create_n_initial(graph_n_edges(graph) + 1) <= graph.n_vertices
    /\ \E u, v \in 0..(graph.n_vertices - 1) :
           /\ graph' = graph_biconnect_prealloc(graph, u, v, graph_n_edges(graph), 0)
           /\ ret' = [op |-> "graph_biconnect",
                      value |-> [from |-> u, to |-> v,
                                 edge_value |-> graph_n_edges(graph)]]
    /\ UNCHANGED << hash_inputs, hash, pc, f1, f2, iteration, n_vertices,
                    n_vertices_scaled, heap, rand_calls, key_memory >>

\* hash.c:704: graph_resolve on the graph built
PreallocResolve ==
    /\ pc = "prealloc"
    /\ \E r \in { graph_resolve(graph) } :
           /\ graph' = r.graph
           /\ ret' = [op |-> "graph_resolve", value |-> [acyclic |-> r.acyclic]]
    /\ pc' = "prealloc_resolved"
    /\ UNCHANGED << hash_inputs, hash, f1, f2, iteration, n_vertices,
                    n_vertices_scaled, heap, rand_calls, key_memory >>

NextPrealloc ==
    \/ PreallocAtLeast
    \/ PreallocWipe
    \/ PreallocBiconnect
    \/ PreallocResolve

SpecPrealloc == InitPrealloc /\ [][NextPrealloc]_vars

(***************************************************************************)
(* The hash functions alone: hash_function_hash and                        *)
(* hash_function_hash_const applied to a function whose salt earlier keys  *)
(* of the pass have drawn                                                  *)
(***************************************************************************)

\* the longest key and the longest salt
MaxHashLen == 2

\* the graph orders: the smallest two, and two orders a table of millions of
\* keys has
HashOrders == { 2, 3, 8388608, 16777216 }

\* the bytes of the keys: 0xFF is the char -1
HashBytes == { 0, 1, -1 }

HashKeys == UNION { [1..l -> HashBytes] : l \in 1..MaxHashLen }

\* the salt entries rand() % n has left: the smallest two and the largest
HashSalts(n) == { 0, 1, n - 1 }

InitHash ==
    /\ \E n \in HashOrders : \E l \in 0..MaxHashLen : \E salt \in [1..l -> HashSalts(n)] :
           f1 = [salt |-> salt, salt_length |-> l, salt_capacity |-> l, n |-> n]
    /\ pc = "hash_function"
    /\ ret = [op |-> "hash_function_reset", value |-> PENDING]
    /\ hash_inputs = hash_inputs_empty
    /\ hash = NULL
    /\ graph = NULL
    /\ f2 = hash_function_empty
    /\ iteration = 0
    /\ n_vertices = 0
    /\ n_vertices_scaled = 0
    /\ heap = {"f1.salt"}
    /\ rand_calls = 0
    /\ key_memory = << >>

\* hash_function_hash(&f1, key, length) called; a failed assertion aborts
HashKey ==
    /\ pc = "hash_function"
    /\ \E key \in HashKeys :
         \E stream \in [1..Max(0, Len(key) - f1.salt_length) -> 0..RandMax] :
           \E r \in { hash_function_hash(f1, key, Len(key), stream) } :
               /\ f1' = r.f
               /\ rand_calls' = r.drawn
               /\ ret' = [op |-> "hash_function_hash", key |-> key, length |-> Len(key),
                          value |-> [result |-> r.result, ok |-> r.ok]]
               /\ pc' = IF r.ok THEN pc ELSE "abort"
    /\ UNCHANGED << hash_inputs, hash, graph, f2, iteration, n_vertices,
                    n_vertices_scaled, heap, key_memory >>

\* hash_function_hash_const(&f1, key, length) called, with a length
\* hash_lookup lets through (hash.c:849); a failed assertion aborts
HashKeyConst ==
    /\ pc = "hash_function"
    /\ \E key \in HashKeys :
           /\ Len(key) <= f1.salt_length
           /\ \E r \in { hash_function_hash_const(f1, key, Len(key)) } :
                  /\ ret' = [op |-> "hash_function_hash_const", key |-> key,
                             length |-> Len(key),
                             value |-> [result |-> r.result, ok |-> r.ok]]
                  /\ pc' = IF r.ok THEN pc ELSE "abort"
    /\ rand_calls' = 0
    /\ UNCHANGED << hash_inputs, hash, graph, f1, f2, iteration, n_vertices,
                    n_vertices_scaled, heap, key_memory >>

NextHash ==
    \/ HashKey
    \/ HashKeyConst

SpecHash == InitHash /\ [][NextHash]_vars

(***************************************************************************)
(* PROPERTIES                                                              *)
(***************************************************************************)

\* the bytes of a stored record, without the terminator
stored_bytes(input) == SubSeq(input.key, 1, input.length)

\* the records of inputs are pairwise distinct as byte strings
pairwise_distinct(inputs) ==
    \A i, j \in 1..Len(inputs) :
        i # j => stored_bytes(inputs[i]) # stored_bytes(inputs[j])

\* the byte string q is the key of a record of the table h
is_member(h, q) ==
    \E i \in 1..h.keys.n_inputs : stored_bytes(h.keys.inputs[i]) = q

\* hash.c:855-858: the index hash_lookup computes for key in the table h
lookup_index(h, key, length) ==
    (h.values[hash_function_hash_const(h.f1, key, length).result]
        + h.values[hash_function_hash_const(h.f2, key, length).result]) % h.n_values

\* the step on which hash_create returns the table
create_returns_table ==
    pc = "hash" /\ ret'.op = "hash_create" /\ ret'.value = HASH

\* the step on which hash_create returns NULL
create_returns_null ==
    pc \in {"idle", "hash"} /\ ret'.op = "hash_create" /\ ret'.value = NULL

\* no assertion of the library ever fails
NoAbort == pc # "abort"

\* C1: when hash_create succeeds, the keys of the input set are pairwise
\* distinct and, for the record at insertion index i, the index computed
\* from the table's values and the two hashes of the key is i, hash_lookup
\* of the key with its length returns the record at index i, and that record
\* is the record that was added: same bytes, same length, same payload.
\* Positions 0..K-1 are hit once each, so key -> index is a bijection.
C1_lookup_returns_record ==
    [][create_returns_table =>
          /\ pairwise_distinct(hash_inputs.inputs)
          /\ hash'.keys.n_inputs = hash_inputs.n_inputs
          /\ \A i \in 0..(hash_inputs.n_inputs - 1) :
                 LET input == hash_inputs.inputs[i + 1]
                     r == hash_lookup(hash', stored_bytes(input), input.length)
                 IN  /\ lookup_index(hash', stored_bytes(input), input.length) = i
                     /\ r.ok
                     /\ r.value = [input |-> i]
                     /\ hash'.keys.inputs[i + 1] = input
                     /\ input.ptr = Payload(i + 1)
                     /\ input.key = stored_bytes(input) \o << 0 >>]_vars

\* C1 witness: a table of two keys, and the lookup of the second returned it
C1_witness ==
    /\ hash # NULL
    /\ hash.keys.n_inputs = 2
    /\ ret.op = "hash_lookup"
    /\ ret.value = [input |-> 1]
    /\ ret.key = stored_bytes(hash.keys.inputs[2])

\* C2: on a table, hash_lookup of a byte string that is not the key of a
\* record (bytes and length) returns NULL, whatever index it computes: an
\* index beyond the records, the slot of a key of another length, the slot
\* of the key it extends by a zero byte.
C2_non_member_not_found ==
    hash # NULL =>
        /\ \A q \in Queries :
               ~is_member(hash, q) => hash_lookup(hash, q, Len(q)).value = NULL
        /\ (ret.op = "hash_lookup" /\ ~is_member(hash, ret.key)) => ret.value = NULL

\* C2 witness: a lookup of a key of the table extended by a zero byte hashed
\* to the slot of that key and returned NULL
C2_witness ==
    /\ hash # NULL
    /\ ret.op = "hash_lookup"
    /\ ret.value = NULL
    /\ ret.hashed
    /\ \E i \in 1..hash.keys.n_inputs :
           /\ ret.key = stored_bytes(hash.keys.inputs[i]) \o << 0 >>
           /\ lookup_index(hash, ret.key, ret.length) = i - 1

\* C3: hash_create, once called, returns: the table, or NULL once the graph
\* order has grown to the ceiling; whatever the PRNG returns.
C3_create_terminates ==
    (pc = "hash") ~>
        (pc = "idle" /\ ret.op = "hash_create" /\ (ret.value = HASH \/ ret.value = NULL))

\* C3 witness: hash_create gave up on a set of one key after drawing salt in
\* more than one growth period
C3_witness ==
    /\ ret.op = "hash_create"
    /\ ret.value = NULL
    /\ hash_inputs.n_inputs = 1
    /\ rand_calls > 2 * hash_iterations_grow_every_n_trials

\* C4: when hash_create returns NULL the input set is what it was, record
\* for record, hash_create can be called on it again, and neither the graph
\* nor a salt array of the attempt stays allocated.
C4_failure_leaves_inputs ==
    [][create_returns_null =>
          /\ hash_inputs' = hash_inputs
          /\ pc' = "idle"
          /\ hash' = NULL
          /\ graph' = NULL
          /\ heap' \cap {"graph", "f1.salt", "f2.salt"} = {}]_vars

\* C4 witness: hash_create gave up on a set of two keys, after salt was
\* drawn and the graph built
C4_witness ==
    /\ ret.op = "hash_create"
    /\ ret.value = NULL
    /\ hash_inputs.n_inputs = 2
    /\ rand_calls > 0
    /\ pc = "idle"

\* C5: when hash_create succeeds the table holds the K records of the input
\* set in their order and the input set is the empty set, to which a record
\* can be added afterwards.
C5_success_moves_records ==
    [][/\ create_returns_table =>
              /\ hash'.keys.inputs = hash_inputs.inputs
              /\ hash'.keys.n_inputs = hash_inputs.n_inputs
              /\ Len(hash'.keys.inputs) = hash'.keys.n_inputs
              /\ hash_inputs' = hash_inputs_empty
              /\ pc' = "idle"
       /\ (hash # NULL /\ ret'.op = "hash_inputs_add" /\ hash_inputs' # hash_inputs) =>
              /\ hash_inputs'.n_inputs = hash_inputs.n_inputs + 1
              /\ Len(hash_inputs'.inputs) = hash_inputs'.n_inputs
              /\ hash' = hash]_vars

\* C5 witness: a table of one record, and a record added to the input set
\* after the table was built
C5_witness ==
    /\ hash # NULL
    /\ hash.keys.n_inputs = 1
    /\ hash_inputs.n_inputs = 1
    /\ ret.op = "hash_inputs_add"

\* C6: hash_create on an input set without records returns NULL at once: no
\* rand() call, no iteration, no graph.
C6_empty_set_fails ==
    [][(pc = "idle" /\ hash_inputs.n_inputs = 0 /\ ret'.op = "hash_create") =>
          /\ ret'.value = NULL
          /\ pc' = "idle"
          /\ rand_calls' = 0
          /\ iteration' = 0
          /\ graph' = NULL
          /\ heap' = heap
          /\ hash' = hash
          /\ hash_inputs' = hash_inputs]_vars

\* C6 witness: hash_create returned NULL on the empty input set
C6_witness ==
    /\ ret.op = "hash_create"
    /\ ret.value = NULL
    /\ hash_inputs.n_inputs = 0
    /\ rand_calls = 0
    /\ heap = {}

zero_keys_added ==
    /\ hash_inputs.n_inputs = Cardinality(ZeroKeys)
    /\ { stored_bytes(hash_inputs.inputs[i]) : i \in 1..hash_inputs.n_inputs } = ZeroKeys

\* C8 as the specification states it: hash_create on the three keys of one,
\* two and three zero bytes succeeds: it does not return NULL.
C8_original ==
    zero_keys_added => ~(ret.op = "hash_create" /\ ret.value = NULL)

\* a pass of hash_create over inputs with graph order n and the salts the
\* stream gives leaves an acyclic graph
pass_succeeds(inputs, n, stream) ==
    create_pass_rest(graph_wipe(graph_at_least(graph_create, n)),
                     hash_function_reset(hash_function_empty, n),
                     hash_function_reset(hash_function_empty, n),
                     inputs, stream).acyclic

\* there is a graph order below the ceiling and there are salts below the
\* graph order with which a pass of hash_create over inputs succeeds
build_possible(inputs) ==
    \E n \in create_n_initial(Len(inputs))..(vertices_max(Len(inputs)) - 1) :
        \E stream \in [1..(2 * max_length(inputs, 1)) -> 0..(n - 1)] :
            pass_succeeds(inputs, n, stream)

\* C9 as the specification states it: for every set of pairwise distinct
\* keys of one byte or more, zero bytes anywhere, there is a PRNG stream with
\* which hash_create succeeds.
C9_original ==
    (pc = "hash" /\ iteration = 1 /\ pairwise_distinct(hash_inputs.inputs))
        => build_possible(hash_inputs.inputs)

\* C10: on a table, hash_lookup of a query longer than the salt of either
\* function returns NULL without hashing; hash_function_hash_const is called
\* only with a length within both salts, so none of its assertions fails;
\* and hash_lookup leaves the table, salts included, as it was.
C10_long_query_not_hashed ==
    [][hash # NULL =>
          /\ \A q \in Queries :
                 LET r == hash_lookup(hash, q, Len(q))
                 IN  /\ r.ok
                     /\ Len(q) > Min(hash.f1.salt_length, hash.f2.salt_length)
                            => (r.value = NULL /\ ~r.hashed)
                     /\ r.hashed =>
                            /\ Len(q) <= hash.f1.salt_length
                            /\ Len(q) <= hash.f2.salt_length
                            /\ hash_function_hash_const(hash.f1, q, Len(q)).ok
                            /\ hash_function_hash_const(hash.f2, q, Len(q)).ok
          /\ (pc = "idle" /\ ret'.op = "hash_lookup") =>
                 /\ hash' = hash
                 /\ rand_calls' = 0
                 /\ pc' = "idle"
                 /\ ret'.length > Min(hash.f1.salt_length, hash.f2.salt_length)
                        => (ret'.value = NULL /\ ~ret'.hashed)]_vars

\* C10 witness: a lookup of a query longer than the salt returned NULL
\* without hashing
C10_witness ==
    /\ hash # NULL
    /\ ret.op = "hash_lookup"
    /\ ret.length > Min(hash.f1.salt_length, hash.f2.salt_length)
    /\ ret.value = NULL
    /\ ~ret.hashed

\* C11: hash_lookup changes nothing: the table (records, both salts and
\* their lengths, n, values), the input set and the allocations are after
\* the call what they were before it, no rand() call is made, the value
\* returned is a function of the table and the query, and the same query is
\* answered by the table after the call as it was before it.
C11_lookup_read_only ==
    [][(pc = "idle" /\ hash # NULL /\ ret'.op = "hash_lookup") =>
          /\ hash' = hash
          /\ hash_inputs' = hash_inputs
          /\ heap' = heap
          /\ key_memory' = key_memory
          /\ rand_calls' = 0
          /\ pc' = "idle"
          /\ ret'.value = hash_lookup(hash, ret'.key, ret'.length).value
          /\ ret'.value = hash_lookup(hash', ret'.key, ret'.length).value]_vars

\* C11 witness: a lookup that hashed its query and returned the first
\* record, with the allocations of the table and nothing else live
C11_witness ==
    /\ hash # NULL
    /\ ret.op = "hash_lookup"
    /\ ret.hashed
    /\ ret.value = [input |-> 0]
    /\ rand_calls = 0
    /\ heap = {"hash", "hash.values", "hash.f1.salt", "hash.f2.salt"}

\* C12: the table hash_create returns holds the input set as it was, the keys
\* of a table never change, and hash_recycle_inputs returns them as an input
\* set: its size is the number of keys, its iteration enumerates the records
\* (bytes, length, payload) in insertion order, no key buffer is allocated or
\* freed, and the table and its allocations are gone.
C12_recycle_round_trip ==
    [][/\ create_returns_table => hash'.keys = hash_inputs
       /\ (hash # NULL /\ hash' # NULL) => hash'.keys = hash.keys
       /\ (pc = "idle" /\ hash # NULL /\ ret'.op = "hash_recycle_inputs") =>
              /\ hash_inputs_n_keys(ret'.value) = hash_n_keys(hash)
              /\ hash_inputs_apply(ret'.value) = hash.keys.inputs
              /\ Len(hash.keys.inputs) = hash_n_keys(hash)
              /\ key_memory' = key_memory
              /\ hash' = NULL
              /\ heap' \cap hash_allocations = {}]_vars

\* C12 witness: a table of two keys, one copied and one not, was recycled and
\* no key buffer was freed
C12_witness ==
    /\ ret.op = "hash_recycle_inputs"
    /\ hash = NULL
    /\ hash_inputs_n_keys(ret.value) = 2
    /\ Len(key_memory) = 2
    /\ key_memory[1] = key_borrowed
    /\ key_memory[2] = key_malloc

\* C13 as the specification states it: the set hash_inputs_from_hash returns
\* has as many keys as the table and its iteration enumerates the records of
\* the table in insertion order.
C13_original ==
    ret.op = "hash_inputs_from_hash" =>
        /\ hash_inputs_n_keys(ret.value) = hash_n_keys(hash)
        /\ hash_inputs_apply(ret.value) = hash.keys.inputs

\* the buffers of the records of inputs
key_buffers(inputs) == { key_buffer(inputs[i]) : i \in DOMAIN inputs }

\* every buffer of freed has been freed once more, the others are as they were
freed_once_more(freed) ==
    /\ DOMAIN key_memory' = DOMAIN key_memory
    /\ \A k \in DOMAIN key_memory :
           /\ key_memory'[k].owner = key_memory[k].owner
           /\ key_memory'[k].frees = key_memory[k].frees + (IF k \in freed THEN 1 ELSE 0)

\* C15 as the specification states it: no key added with
\* hash_inputs_add_no_copy is ever freed by the library.
C15_original ==
    \A k \in DOMAIN key_memory :
        key_memory[k].owner = "caller" => key_memory[k].frees = 0

\* C15: a record holds a key pointer, a length and a payload and nothing that
\* tells a copied key from a key of the caller. hash_inputs_destroy frees
\* the key of every record of the set and hash_destroy the key of every
\* record of the table, the keys added with hash_inputs_add_no_copy
\* included; hash_inputs_destroy_except_keys and hash_recycle_inputs free no
\* key, the copied ones included; and no key is freed twice.
C15_destroy_frees_every_key ==
    [][/\ (pc = "idle" /\ ret'.op = "hash_inputs_destroy") =>
              /\ freed_once_more(key_buffers(hash_inputs.inputs))
              /\ \A i \in DOMAIN hash_inputs.inputs :
                     DOMAIN hash_inputs.inputs[i] = {"key", "length", "ptr"}
              /\ hash_inputs' = NULL
       /\ (pc = "idle" /\ ret'.op = "hash_destroy") =>
              /\ freed_once_more(key_buffers(hash.keys.inputs))
              /\ \A i \in DOMAIN hash.keys.inputs :
                     DOMAIN hash.keys.inputs[i] = {"key", "length", "ptr"}
              /\ hash' = NULL
       /\ (pc = "idle" /\ ret'.op \in {"hash_inputs_destroy_except_keys",
                                       "hash_recycle_inputs"}) =>
              key_memory' = key_memory
       /\ \A k \in DOMAIN key_memory' : key_memory'[k].frees <= 1]_vars

\* C15 witness: a table built from a set of a key of the caller and a copied
\* key was destroyed, and both keys were freed
C15_witness ==
    /\ ret.op = "hash_destroy"
    /\ Len(key_memory) = 2
    /\ key_memory[1] = [owner |-> "caller", frees |-> 1]
    /\ key_memory[2] = [owner |-> "library", frees |-> 1]

\* the step on which one of the three add operations returns
add_returns ==
    /\ pc = "idle"
    /\ ret'.op \in {"hash_inputs_add", "hash_inputs_add_safe", "hash_inputs_add_no_copy"}

\* no record of the struct hash_inputs hi has length 0
no_empty_key(hi) == \A i \in 1..hi.n_inputs : hi.inputs[i].length >= 1

\* C16: hash_inputs_add, hash_inputs_add_safe (with and without
\* HASH_NO_WARNINGS) and hash_inputs_add_no_copy called with length 0 leave
\* the input set and the key buffers as they were; no record of length 0 is
\* in an input set, in the set hash_create works on or in a table; and
\* hash_inputs_add with length >= 1 appends one record at the end (the bytes
\* copied, a zero byte after them, the length, the payload) and leaves the
\* records before it as they were.
C16_empty_key_ignored ==
    [][/\ (add_returns /\ ret'.length = 0) =>
              /\ hash_inputs' = hash_inputs
              /\ key_memory' = key_memory
       /\ hash_inputs' # NULL => no_empty_key(hash_inputs')
       /\ hash' # NULL => no_empty_key(hash'.keys)
       /\ (pc = "idle" /\ ret'.op = "hash_inputs_add" /\ ret'.length >= 1) =>
              /\ hash_inputs'.n_inputs = hash_inputs.n_inputs + 1
              /\ Len(hash_inputs'.inputs) = hash_inputs'.n_inputs
              /\ SubSeq(hash_inputs'.inputs, 1, hash_inputs.n_inputs) = hash_inputs.inputs
              /\ hash_inputs'.inputs[hash_inputs'.n_inputs] =
                     [key |-> SubSeq(ret'.key, 1, ret'.length) \o << 0 >>,
                      length |-> ret'.length, ptr |-> ret'.ptr]
              /\ Len(key_memory') = Len(key_memory) + 1]_vars

\* C16 witness: hash_inputs_add_safe of a library built with
\* HASH_NO_WARNINGS was called with length 0 on a set of one record
C16_witness ==
    /\ ret.op = "hash_inputs_add_safe"
    /\ ret.length = 0
    /\ ret.no_warnings
    /\ hash_inputs # NULL
    /\ hash_inputs.n_inputs = 1

\* a record of the input set has the length and the bytes of the key the add
\* operation was called with
add_key_present ==
    \E i \in 1..hash_inputs.n_inputs :
        /\ hash_inputs.inputs[i].length = ret'.length
        /\ stored_bytes(hash_inputs.inputs[i]) = SubSeq(ret'.key, 1, ret'.length)

\* C17: hash_inputs_add_safe leaves the set as it was when a record has the
\* length and the bytes of the key, zero bytes compared like any other, and
\* otherwise does what hash_inputs_add does: one record appended, the records
\* before it unchanged. So a set of pairwise distinct keys stays one, and the
\* records stay in the order of their first insertion.
C17_add_safe_skips_present ==
    [][(pc = "idle" /\ ret'.op = "hash_inputs_add_safe") =>
          /\ add_key_present => hash_inputs' = hash_inputs
          /\ ~add_key_present =>
                 /\ hash_inputs' = hash_inputs_added(hash_inputs, ret'.key,
                                                     ret'.length, ret'.ptr)
                 /\ ret'.length >= 1 =>
                        /\ hash_inputs'.n_inputs = hash_inputs.n_inputs + 1
                        /\ stored_bytes(hash_inputs'.inputs[hash_inputs'.n_inputs])
                               = SubSeq(ret'.key, 1, ret'.length)
          /\ SubSeq(hash_inputs'.inputs, 1, hash_inputs.n_inputs) = hash_inputs.inputs
          /\ pairwise_distinct(hash_inputs.inputs)
                 => pairwise_distinct(hash_inputs'.inputs)]_vars

\* C17 witness: hash_inputs_add_safe was called with the first key of a set
\* of two keys that are equal up to their first zero byte, and the set still
\* has two records
C17_witness ==
    /\ ret.op = "hash_inputs_add_safe"
    /\ ret.length = 2
    /\ hash_inputs # NULL
    /\ hash_inputs.n_inputs = 2
    /\ stored_bytes(hash_inputs.inputs[1]) = ret.key
    /\ hash_inputs.inputs[1].key[1] = 0
    /\ hash_inputs.inputs[2].key[1] = 0
    /\ hash_inputs.inputs[2].length = 2

\* C18: on a table hash_n_keys returns the number of records of the input
\* set hash_create was called on; hash_get_keys returns these records in
\* insertion order and stores their number through n_keys_out when it is not
\* null; the record at position i of the array is the one hash_lookup of the
\* i-th key returns a pointer to; and neither call changes anything.
C18_keys_view ==
    [][/\ create_returns_table =>
              /\ hash_n_keys(hash') = hash_inputs.n_inputs
              /\ hash_get_keys(hash').keys = hash_inputs.inputs
              /\ hash_get_keys(hash').n_keys_out = hash_inputs.n_inputs
       /\ (pc = "idle" /\ ret'.op = "hash_n_keys") =>
              /\ ret'.value.n_keys = hash.keys.n_inputs
              /\ ret'.value.n_keys = Len(hash.keys.inputs)
       /\ (pc = "idle" /\ ret'.op = "hash_get_keys") =>
              /\ ret'.value.keys = hash.keys.inputs
              /\ ret'.value.n_keys_out \in {-1, hash.keys.n_inputs}
              /\ Len(ret'.value.keys) = hash.keys.n_inputs
              /\ \A i \in 0..(hash.keys.n_inputs - 1) :
                     LET input == ret'.value.keys[i + 1]
                     IN  hash_lookup(hash, stored_bytes(input), input.length).value
                             = [input |-> i]
       /\ (pc = "idle" /\ ret'.op \in {"hash_n_keys", "hash_get_keys"}) =>
              /\ hash' = hash
              /\ hash_inputs' = hash_inputs
              /\ key_memory' = key_memory
              /\ heap' = heap]_vars

\* C18 witness: hash_get_keys on a table of two keys returned the two records
\* and stored 2 through n_keys_out
C18_witness ==
    /\ ret.op = "hash_get_keys"
    /\ hash # NULL
    /\ ret.value.n_keys_out = 2
    /\ Len(ret.value.keys) = 2
    /\ ret.value.keys[2] = hash.keys.inputs[2]

\* the number of times the edge labelled i ends at the vertex u of the graph
\* g (twice when the edge is a loop)
edge_ends(g, i, u) ==
    Cardinality({ j \in 1..Len(g.vertices[u].edges) : g.vertices[u].edges[j].value = i })

\* the graph g, as an undirected multigraph, has no cycle: every set of edges
\* but the empty one leaves a vertex where an odd number of its edges end
is_forest(g) ==
    \A S \in SUBSET graph_labels(g) :
        S # {} =>
            \E u \in 0..(g.n_vertices - 1) :
                Cardinality({ i \in S : edge_ends(g, i, u) = 1 }) % 2 = 1

\* graph_resolve has returned
resolve_returned == pc = "resolved" /\ ret.op = "graph_resolve"

\* C19: graph_resolve returns true exactly when the graph, as an undirected
\* multigraph, is a forest: a loop, two edges between the same two vertices
\* and a longer cycle all make it return false, and the edge back to the
\* parent, skipped once, does not.
C19_resolve_detects_cycles ==
    resolve_returned => (ret.value.acyclic <=> is_forest(graph))

\* C19 witness: graph_resolve returned false on a graph of two edges between
\* the same two vertices
C19_witness ==
    /\ resolve_returned
    /\ ~ret.value.acyclic
    /\ graph_n_edges(graph) = 2
    /\ \E u, v \in 0..(graph.n_vertices - 1) :
           /\ u # v
           /\ edge_ends(graph, 0, u) = 1 /\ edge_ends(graph, 0, v) = 1
           /\ edge_ends(graph, 1, u) = 1 /\ edge_ends(graph, 1, v) = 1

\* C20: when graph_resolve returns true, the value of every vertex is in
\* 0..n-1 and, for every edge i between u and v, value[u] + value[v] is i
\* modulo n; no assertion of graph_resolve fails.
C20_resolve_labels_edges ==
    (resolve_returned /\ ret.value.acyclic) =>
        /\ graph.ok
        /\ \A u \in 0..(graph.n_vertices - 1) :
               /\ graph.vertices[u].value \in 0..(graph.n_vertices - 1)
               /\ \A j \in 1..Len(graph.vertices[u].edges) :
                      LET edge == graph.vertices[u].edges[j]
                      IN  (graph.vertices[u].value + graph.vertices[edge.to].value)
                              % graph.n_vertices = edge.value

\* C20 witness: graph_resolve returned true and gave a vertex, reached by
\* the edge 0 from a vertex of value 1, the value n - 1
C20_witness ==
    /\ resolve_returned
    /\ ret.value.acyclic
    /\ \E u \in 0..(graph.n_vertices - 1) :
           /\ graph.vertices[u].value = 1
           /\ \E j \in 1..Len(graph.vertices[u].edges) :
                  /\ graph.vertices[u].edges[j].value = 0
                  /\ graph.vertices[graph.vertices[u].edges[j].to].value
                         = graph.n_vertices - 1

\* the scaled order and the order a growth step makes of scaled and n
grown_scaled(scaled) ==
    (scaled * hash_iterations_growth_multiplier)
        \div hash_iterations_growth_multiplier_divider

grown_n(n, scaled) ==
    Max(n, grown_scaled(scaled) \div hash_iterations_growth_multiplier_divider)

\* the pass that ends has the number t of a pass before a growth step: the
\* next pass t + 1 has t mod GROW_EVERY = 0
growth_due == iteration % hash_iterations_grow_every_n_trials = 0

salt_extended(before, after, length, stream) ==
    /\ after.n = before.n
    /\ after.salt_length = Max(before.salt_length, length)
    /\ after.salt_length >= before.salt_length
    /\ Len(after.salt) = after.salt_length
    /\ \A j \in 1..before.salt_length : after.salt[j] = before.salt[j]
    /\ \A j \in (before.salt_length + 1)..after.salt_length :
           after.salt[j] = stream[j - before.salt_length] % before.n
    /\ \A j \in 1..after.salt_length : after.salt[j] \in 0..(after.n - 1)

\* hashing the key with the function hf when rand() is going to return
\* stream extends the salt as salt_extended says, calls rand() once for every
\* new entry, and hashing the key again gives the same result, the same
\* function and no call of rand()
hash_is_stable(hf, key, length, stream) ==
    LET h == hash_function_hash(hf, key, length, stream)
        again == hash_function_hash(h.f, key, length, h.stream)
    IN  /\ salt_extended(hf, h.f, length, stream)
        /\ h.drawn = Max(0, length - hf.salt_length)
        /\ h.stream = SubSeq(stream, h.drawn + 1, Len(stream))
        /\ again.result = h.result
        /\ again.f = h.f
        /\ again.drawn = 0

\* the pass of hash_create that starts in this state, as far as the first
\* count keys, when rand() is going to return stream
pass_after_keys(count, stream) ==
    create_hash_keys([graph |-> graph, f1 |-> f1, f2 |-> f2,
                      stream |-> stream, drawn |-> 0, ok |-> TRUE],
                     SubSeq(hash_inputs.inputs, 1, count), 0)

\* C22: in a pass of hash_create, whatever rand() returns, hashing the next
\* key with either function leaves the salt no shorter, rewrites no entry,
\* draws entries for the positions from salt_length to the length of the key
\* only, keeps every entry in 0..n-1, and gives the same result when done
\* again; and the hashes the self-check computes after the pass are the two
\* vertices the edge of the key was put between, without a call of rand().
C22_salt_stable_in_pass ==
    pc = "hash" =>
        \A stream \in [1..rand_needed(f1, f2, hash_inputs.inputs) -> 0..RandMax] :
            /\ \A i \in 1..hash_inputs.n_inputs :
                   LET before == pass_after_keys(i - 1, stream)
                       input == hash_inputs.inputs[i]
                       h1 == hash_function_hash(before.f1, input.key, input.length,
                                                before.stream)
                   IN  /\ hash_is_stable(before.f1, input.key, input.length, before.stream)
                       /\ hash_is_stable(before.f2, input.key, input.length, h1.stream)
            /\ LET r == create_pass_rest(graph, f1, f2, hash_inputs.inputs, stream)
               IN  \A i \in 1..hash_inputs.n_inputs :
                       LET input == hash_inputs.inputs[i]
                           r1 == hash_function_hash(r.f1, input.key, input.length, << >>)
                           r2 == hash_function_hash(r.f2, input.key, input.length, << >>)
                       IN  /\ r1.drawn = 0 /\ r2.drawn = 0
                           /\ r1.f = r.f1 /\ r2.f = r.f2
                           /\ \E j \in 1..Len(r.graph.vertices[r1.result].edges) :
                                  r.graph.vertices[r1.result].edges[j]
                                      = [to |-> r2.result, value |-> i - 1]
                           /\ \E j \in 1..Len(r.graph.vertices[r2.result].edges) :
                                  r.graph.vertices[r2.result].edges[j]
                                      = [to |-> r1.result, value |-> i - 1]

\* C22 witness: hash_create returned a table of a key of one byte and a key
\* of two bytes, in this order: the salt of each function was drawn in two
\* steps
C22_witness ==
    /\ ret.op = "hash_create"
    /\ ret.value = HASH
    /\ hash.keys.n_inputs = 2
    /\ hash.keys.inputs[1].length = 1
    /\ hash.keys.inputs[2].length = 2
    /\ rand_calls = 4

\* the sum of byte * salt over the first length bytes of key, in the
\* integers
RECURSIVE byte_salt_sum(_, _, _)
byte_salt_sum(salt, key, length) ==
    IF length = 0 THEN 0
    ELSE byte_salt_sum(salt, key, length - 1) + (key[length] % 256) * salt[length]

\* C23 as the specification states it: for every key and every salt with
\* entries in 0..n-1, no assertion of hash_function_hash and of
\* hash_function_hash_const fails and the result is the sum of
\* byte * salt modulo n, in 0..n-1.
C23_original ==
    (ret.op = "hash_function_hash" \/ ret.op = "hash_function_hash_const") =>
        /\ \A j \in 1..f1.salt_length : f1.salt[j] \in 0..(f1.n - 1)
        /\ ret.value.ok
        /\ ret.value.result \in 0..(f1.n - 1)
        /\ ret.value.result = byte_salt_sum(f1.salt, ret.key, ret.length) % f1.n

\* C24 as the specification states it: every vertex graph_at_least creates
\* starts with no edges, not visited and with the value -1.
C24_original ==
    (pc = "grown" /\ ret.op = "graph_at_least") =>
        \A i \in ret.value.n_before..(graph.n_vertices - 1) :
            /\ graph.vertices[i].edges = << >>
            /\ graph.vertices[i].visited = FALSE
            /\ graph.vertices[i].value = -1

\* C24: graph_at_least(n) is called with n not below the order of the graph
\* and leaves a graph of exactly n vertices; the vertices there were are what
\* they were: value, visited, edges and edge capacity; every vertex it
\* creates has no edges, room for HASH_PREALLOC_EDGES edges, is not visited
\* and has the value 0; the value is -1 after the graph_wipe that follows.
C24_at_least_grows ==
    [][/\ ret'.op = "graph_at_least" =>
              /\ ret'.value.n >= graph.n_vertices
              /\ graph'.n_vertices = ret'.value.n
              /\ DOMAIN graph'.vertices = 0..(ret'.value.n - 1)
              /\ graph'.ok
              /\ \A i \in 0..(graph.n_vertices - 1) :
                     graph'.vertices[i] = graph.vertices[i]
              /\ \A i \in graph.n_vertices..(ret'.value.n - 1) :
                     /\ graph'.vertices[i].edges = << >>
                     /\ graph'.vertices[i].edge_capacity = hash_prealloc_edges
                     /\ graph'.vertices[i].visited = FALSE
                     /\ graph'.vertices[i].value = 0
       /\ (pc = "grown" /\ ret'.op = "graph_wipe") =>
              /\ graph'.n_vertices = graph.n_vertices
              /\ \A i \in 0..(graph.n_vertices - 1) :
                     /\ graph'.vertices[i].value = -1
                     /\ graph'.vertices[i].visited = FALSE
                     /\ graph'.vertices[i].edges = << >>
                     /\ graph'.vertices[i].edge_capacity
                            = graph.vertices[i].edge_capacity]_vars

\* C24 witness: graph_at_least has added a vertex, of value 0, to a graph
\* with an edge
C24_witness ==
    /\ pc = "grown"
    /\ ret.op = "graph_at_least"
    /\ ret.value.n > ret.value.n_before
    /\ graph.vertices[ret.value.n - 1].value = 0
    /\ graph_n_edges(graph) >= 1

\* every vertex of g is as graph_wipe leaves it: value -1, not visited, no
\* edge
graph_is_wiped(g) ==
    \A i \in 0..(g.n_vertices - 1) :
        /\ g.vertices[i].value = -1
        /\ g.vertices[i].visited = FALSE
        /\ g.vertices[i].edges = << >>

\* the adjacency list of vertex v after the keys 0, 1, ... were connected in
\* this order, ends[i + 1] being the pair (H1, H2) of key i: the entry
\* (H2, i) at H1, then the entry (H1, i) at H2
RECURSIVE edges_of_keys(_, _)
edges_of_keys(v, ends) ==
    IF ends = << >> THEN << >>
    ELSE LET i == Len(ends) - 1
             e == ends[Len(ends)]
         IN  edges_of_keys(v, SubSeq(ends, 1, i))
                 \o (IF e[1] = v THEN << [to |-> e[2], value |-> i] >> ELSE << >>)
                 \o (IF e[2] = v THEN << [to |-> e[1], value |-> i] >> ELSE << >>)

\* the sum of the lengths of the adjacency lists of the vertices 0..(n - 1)
RECURSIVE adjacency_total(_, _)
adjacency_total(g, n) ==
    IF n = 0 THEN 0
    ELSE adjacency_total(g, n - 1) + Len(g.vertices[n - 1].edges)

\* the graph handed to graph_resolve in the pass that starts in this state
\* when rand() is going to return stream holds the edges of the keys of
\* this pass and nothing else
graph_at_resolve(stream) ==
    LET st == pass_after_keys(hash_inputs.n_inputs, stream)
        ends == [i \in 1..hash_inputs.n_inputs |->
                    LET input == hash_inputs.inputs[i]
                    IN  << hash_function_hash(st.f1, input.key, input.length, << >>).result,
                           hash_function_hash(st.f2, input.key, input.length, << >>).result >>]
    IN  /\ st.ok
        /\ st.graph.ok
        /\ st.graph.n_vertices = n_vertices
        /\ \A v \in 0..(n_vertices - 1) :
               /\ st.graph.vertices[v].edges = edges_of_keys(v, ends)
               /\ st.graph.vertices[v].value = -1
               /\ st.graph.vertices[v].visited = FALSE
               /\ Len(st.graph.vertices[v].edges) <= st.graph.vertices[v].edge_capacity
               /\ st.graph.vertices[v].edge_capacity >= graph.vertices[v].edge_capacity
               /\ graph_wipe(st.graph).vertices[v].edge_capacity
                      = st.graph.vertices[v].edge_capacity
        /\ adjacency_total(st.graph, n_vertices) = 2 * hash_inputs.n_inputs

\* C25: every pass of hash_create starts the loop over the keys with a graph
\* of n_vertices vertices, the vertices added by growth included, that
\* graph_wipe has left with value -1, not visited and without edges, the
\* edge capacity of no vertex below what it was in the pass before; and
\* whatever rand() returns, graph_resolve is called on a graph where key i, in
\* insertion order, has the entry (H2, i) at vertex H1 and the entry (H1, i)
\* at vertex H2 and there is no other entry: the lengths of the adjacency
\* lists sum to twice the number of keys and none exceeds its capacity.
C25_graph_holds_pass_edges ==
    [][/\ pc = "hash" =>
              \A stream \in [1..rand_needed(f1, f2, hash_inputs.inputs) -> 0..RandMax] :
                  graph_at_resolve(stream)
       /\ pc' = "hash" =>
              /\ graph'.n_vertices = n_vertices'
              /\ DOMAIN graph'.vertices = 0..(n_vertices' - 1)
              /\ graph_is_wiped(graph')
              /\ pc = "hash" =>
                     /\ graph'.n_vertices >= graph.n_vertices
                     /\ \A v \in 0..(graph.n_vertices - 1) :
                            graph'.vertices[v].edge_capacity
                                >= graph.vertices[v].edge_capacity]_vars

\* C25 witness: a pass over two keys on a graph that has grown by a vertex,
\* after passes that left edges
C25_witness ==
    /\ pc = "hash"
    /\ iteration > hash_iterations_grow_every_n_trials
    /\ hash_inputs.n_inputs = 2
    /\ graph.n_vertices = 4
    /\ graph_is_wiped(graph)

\* the table h has n_values values, each in 0..(n_values - 1), two hash
\* functions of the order n_values whose salt is as long as the longest key,
\* and fewer keys than values
table_shape(h) ==
    /\ DOMAIN h.values = 0..(h.n_values - 1)
    /\ \A i \in 0..(h.n_values - 1) : h.values[i] \in 0..(h.n_values - 1)
    /\ h.f1.n = h.n_values
    /\ h.f2.n = h.n_values
    /\ h.f1.salt_length = max_length(h.keys.inputs, 1)
    /\ h.f2.salt_length = max_length(h.keys.inputs, 1)
    /\ Len(h.f1.salt) = h.f1.salt_length
    /\ Len(h.f2.salt) = h.f2.salt_length
    /\ h.keys.n_inputs < h.n_values

\* C26: the table hash_create returns has as many values as the graph of the
\* last pass has vertices, every value in 0..(n_values - 1), both hash
\* functions of the order n_values (the asserts of hash_lookup hold) with a
\* salt as long as the longest key, and fewer keys than values; and it stays
\* so.
C26_table_shape ==
    [][/\ (pc = "hash" /\ ret'.op = "hash_create" /\ ret'.value = HASH) =>
              /\ hash'.n_values = graph.n_vertices
              /\ hash'.n_values = n_vertices
              /\ hash'.keys = hash_inputs
              /\ table_shape(hash')
       /\ hash' # NULL => table_shape(hash')]_vars

\* C26 witness: hash_create returned a table of two keys, the longer of two
\* bytes, from a graph that has grown to four vertices
C26_witness ==
    /\ ret.op = "hash_create"
    /\ ret.value = HASH
    /\ hash.keys.n_inputs = 2
    /\ hash.n_values = 4
    /\ hash.f1.salt_length = 2

\* the graph a build where HASH_PREALLOC_EDGES is prealloc has when the
\* build without preallocation has the graph g: the buffer of edges of a
\* vertex has room for prealloc edges at least
graph_preallocated(g, prealloc) ==
    [g EXCEPT !.vertices = [i \in 0..(g.n_vertices - 1) |->
                               [g.vertices[i] EXCEPT
                                    !.edge_capacity = Max(prealloc, g.vertices[i].edge_capacity)]]]

\* C27: whatever HASH_PREALLOC_EDGES from 1 to MaxPrealloc a build has, every
\* operation hash_create does on the graph leaves it with the graph of the
\* build without preallocation but for the capacity of the buffers of edges,
\* which is the larger of HASH_PREALLOC_EDGES and the capacity without
\* preallocation: the same vertices, edges, visited flags and values (the
\* values of the table), no assertion failed in either, and the same answer
\* of graph_resolve (the same pass of hash_create is the last).
C27_prealloc_changes_capacity_only ==
    [][\A prealloc \in 1..MaxPrealloc :
           LET g == graph_preallocated(graph, prealloc)
               next == graph_preallocated(graph', prealloc)
           IN  /\ graph'.ok
               /\ ret'.op = "graph_at_least" =>
                      graph_at_least_with(g, ret'.value.n, vertex_prealloc(prealloc)) = next
               /\ ret'.op = "graph_wipe" => graph_wipe(g) = next
               /\ ret'.op = "graph_biconnect" =>
                      graph_biconnect_prealloc(g, ret'.value.from, ret'.value.to,
                                               ret'.value.edge_value, prealloc) = next
               /\ ret'.op = "graph_resolve" =>
                      /\ graph_resolve(g).graph = next
                      /\ graph_resolve(g).acyclic = ret'.value.acyclic]_vars

\* C27 witness: graph_resolve has labelled, in the build without
\* preallocation, a graph with an edge where the buffer of a vertex has
\* grown to two edges in an earlier pass and the buffer of another has not
\* grown
C27_witness ==
    /\ pc = "prealloc_resolved"
    /\ ret.op = "graph_resolve"
    /\ ret.value.acyclic
    /\ graph_n_edges(graph) >= 1
    /\ \E u, v \in 0..(graph.n_vertices - 1) :
           /\ graph.vertices[u].edge_capacity = 2
           /\ graph.vertices[v].edge_capacity = 0

\* the records a and b have keys of the same length and the same bytes
same_key(a, b) ==
    /\ a.length = b.length
    /\ \A k \in 1..a.length : UChar(a.key[k]) = UChar(b.key[k])

\* the pairs of records of the input set hi with the same key
duplicate_keys(hi) ==
    { p \in (1..hi.n_inputs) \X (1..hi.n_inputs) :
          p[1] < p[2] /\ same_key(hi.inputs[p[1]], hi.inputs[p[2]]) }

\* in the pass that starts in this state, when rand() is going to return
\* stream, the records i and j hash to the same pair of vertices, the graph
\* has the edges of both between the two, and graph_resolve returns false
duplicates_make_cycle(i, j, stream) ==
    LET st == pass_after_keys(hash_inputs.n_inputs, stream)
        a == hash_inputs.inputs[i]
        b == hash_inputs.inputs[j]
        a1 == hash_function_hash(st.f1, a.key, a.length, << >>).result
        a2 == hash_function_hash(st.f2, a.key, a.length, << >>).result
        b1 == hash_function_hash(st.f1, b.key, b.length, << >>).result
        b2 == hash_function_hash(st.f2, b.key, b.length, << >>).result
        at1 == st.graph.vertices[a1].edges
        at2 == st.graph.vertices[a2].edges
    IN  /\ a1 = b1
        /\ a2 = b2
        /\ \A e \in {i - 1, j - 1} :
               /\ \E k \in 1..Len(at1) : at1[k] = [to |-> a2, value |-> e]
               /\ \E k \in 1..Len(at2) : at2[k] = [to |-> a1, value |-> e]
        /\ a1 = a2 => Len(at1) >= 4
        /\ ~graph_resolve(st.graph).acyclic

\* C28: while the input set has two records with the same key, added with
\* hash_inputs_add or hash_inputs_add_no_copy, every pass of hash_create,
\* whatever rand() returns, hashes both to the same pair of vertices, so that
\* the graph has a parallel edge or two self-loops and graph_resolve returns
\* false; the pass is followed by another pass or by the return of NULL when
\* the growth step reaches the ceiling, never by a table, and the input set
\* is what it was.
C28_duplicates_never_build ==
    [][(pc = "hash" /\ duplicate_keys(hash_inputs) # {}) =>
           /\ \A stream \in [1..rand_needed(f1, f2, hash_inputs.inputs) -> 0..RandMax] :
                  \A p \in duplicate_keys(hash_inputs) :
                      duplicates_make_cycle(p[1], p[2], stream)
           /\ pc' \in {"hash", "idle"}
           /\ ret'.op = "hash_create"
           /\ ret'.value # HASH
           /\ hash' = NULL
           /\ hash_inputs' = hash_inputs
           /\ key_memory' = key_memory
           /\ pc' = "idle" =>
                  /\ ret'.value = NULL
                  /\ growth_due
                  /\ grown_n(n_vertices, n_vertices_scaled)
                         >= hash_iterations_max_multiplier * (hash_inputs.n_inputs + 1)]_vars

\* C28 witness: hash_create has returned NULL for an input set of two
\* records with the same key, one added with hash_inputs_add_no_copy
C28_witness ==
    /\ pc = "idle"
    /\ ret.op = "hash_create"
    /\ ret.value = NULL
    /\ hash_inputs # NULL
    /\ hash_inputs.n_inputs = 2
    /\ duplicate_keys(hash_inputs) # {}
    /\ \E i \in 1..2 :
           key_memory[key_buffer(hash_inputs.inputs[i])].owner = "caller"

\* the number of records of the input set and of the table whose key is the
\* buffer k
key_holders(k) ==
    (IF hash_inputs = NULL THEN 0
     ELSE Cardinality({ i \in 1..hash_inputs.n_inputs :
                            key_buffer(hash_inputs.inputs[i]) = k }))
    + (IF hash = NULL THEN 0
       ELSE Cardinality({ i \in 1..hash.keys.n_inputs :
                              key_buffer(hash.keys.inputs[i]) = k }))

\* every key buffer is either the key of one record of one container, the
\* input set or the table, and not freed, or the key of no record and freed
\* once
keys_owned_once ==
    \A k \in DOMAIN key_memory :
        /\ key_memory[k].owner = "library"
        /\ \/ key_holders(k) = 1 /\ key_memory[k].frees = 0
           \/ key_holders(k) = 0 /\ key_memory[k].frees = 1

\* C29: over hash_inputs_create, hash_inputs_add, hash_create, whether it
\* returns a table or NULL, hash_recycle_inputs, hash_inputs_destroy and
\* hash_destroy in any order, a key buffer hash_inputs_add allocated is the
\* key of one record of one container, the input set or the table, until it
\* is freed, it is freed once, by the hash_inputs_destroy or hash_destroy
\* that destroys the container it is in, together with every other key of
\* that container, and by nothing else; so destroying the input set
\* hash_create has emptied frees nothing, and destroying the table afterwards
\* frees every key once.
C29_key_buffers_freed_once ==
    [][/\ keys_owned_once
       /\ keys_owned_once'
       /\ \A k \in DOMAIN key_memory :
              key_memory'[k].frees # key_memory[k].frees =>
                  \/ /\ ret'.op = "hash_inputs_destroy"
                     /\ k \in key_buffers(hash_inputs.inputs)
                  \/ /\ ret'.op = "hash_destroy"
                     /\ k \in key_buffers(hash.keys.inputs)
       /\ (pc = "idle" /\ ret'.op = "hash_inputs_destroy") =>
              freed_once_more(key_buffers(hash_inputs.inputs))
       /\ (pc = "idle" /\ ret'.op = "hash_destroy") =>
              freed_once_more(key_buffers(hash.keys.inputs))]_vars

\* C29 witness: the input set was destroyed after hash_create had moved its
\* two keys to the table, then the table was destroyed: both keys are freed
\* once
C29_witness ==
    /\ ret.op = "hash_destroy"
    /\ hash_inputs = NULL
    /\ hash = NULL
    /\ Len(key_memory) = 2
    /\ \A k \in 1..2 : key_memory[k] = [owner |-> "library", frees |-> 1]

====
